---- MODULE Spec2Model ----
(***************************************************************************)
(* upstashdis: a REST client that queues Redis commands and executes them  *)
(* as a single call or as a pipeline (Request, src/unnamed/part_008), and  *)
(* the REST server that dispatches such requests to a backing Redis        *)
(* connection (restserver.Server, src/restserver/restserver.go).           *)
(*                                                                         *)
(* The specifications share the definitions below:                         *)
(*   Spec        one Request of the client: Send, Exec, ExecOne, ExecRaw,  *)
(*               its HTTP round trip answered by the REST server;          *)
(*   ServerSpec  the REST server handling one HTTP request at a time while *)
(*               the backing store is changed by other clients;            *)
(*   ConcSpec    the REST server handling requests concurrently.           *)
(* ServeHTTP is not one step: a handler advances one access to the shared  *)
(* state at a time (the mutex, the token map, a round trip to the backing  *)
(* store), each followed by its local statements up to the next access.    *)
(***************************************************************************)
EXTENDS Integers, Sequences, FiniteSets, TLC

VARIABLES
    req,        \* Request.req: the pending commands of the Request
    tok,        \* Request.tok: the bearer token of the Request
    call,       \* the last call made on the Request and what it returned
    restTokens, \* Server.restTokens: token -> auth
    users,      \* the backing store's users: name, password, key prefixes
    db,         \* the backing store's keys: key -> value
    mu,         \* Server.mu: the handler that holds the mutex, or Unlocked
    handlers,   \* the ServeHTTP calls: where each one stands, what it holds
    inserted    \* history: every token -> auth a handler has put in the map

vars == <<req, tok, call, restTokens, users, db, mu, handlers, inserted>>
clientVars == <<req, tok, call>>
serverVars == <<restTokens, users, db, mu, handlers, inserted>>

(***************************************************************************)
(* Bounds of the model.                                                    *)
(***************************************************************************)
\* longest queue built with Send before an execution call
MaxQueue == 3
\* longest destination list given to Exec
MaxDst == 3
\* longest pipeline body built from the inner commands
MaxPipe == 2
\* number of ServeHTTP calls that may run at the same time
NumHandlers == 2

(***************************************************************************)
(* HTTP status codes used by the server.                                   *)
(***************************************************************************)
StatusOK == 200
StatusBadRequest == 400
StatusUnauthorized == 401
StatusMethodNotAllowed == 405
StatusInternalServerError == 500
StatusBadGateway == 502

(***************************************************************************)
(* Values.  A JSON document is a tagged record; a Go interface{} value     *)
(* holding a string or a number is written the same way.                   *)
(***************************************************************************)
Str(s) == [t |-> "string", s |-> s]
Num(n) == [t |-> "number", n |-> n]
Null == [t |-> "null"]
Arr(a) == [t |-> "array", a |-> a]
Obj(o) == [t |-> "object", o |-> o]

\* fmt.Sprint of a scalar decoded by encoding/json into interface{}
Sprint(v) ==
    CASE v.t = "string" -> v.s
      [] v.t = "number" -> ToString(v.n)
      [] OTHER -> "<nil>"

\* strings.ToLower on the command words the model uses
ToLower(s) ==
    CASE s = "ACL" -> "acl"
      [] s = "RESTTOKEN" -> "resttoken"
      [] s = "GENPASS" -> "genpass"
      [] s = "SETUSER" -> "setuser"
      [] s = "AUTH" -> "auth"
      [] s = "ECHO" -> "echo"
      [] s = "GET" -> "get"
      [] s = "SET" -> "set"
      [] s = "EX" -> "ex"
      [] s = "INCR" -> "incr"
      [] s = "HSET" -> "hset"
      [] s = "HGETALL" -> "hgetall"
      [] s = "NOTACMD" -> "notacmd"
      [] OTHER -> s

\* the text of a JSON scalar or array of scalars, as json.Marshal writes it
ScalarText(v) ==
    CASE v.t = "string" -> "\"" \o v.s \o "\""
      [] v.t = "number" -> ToString(v.n)
      [] OTHER -> "null"

RECURSIVE ItemsText(_, _)
ItemsText(a, i) ==
    IF i > Len(a) THEN ""
    ELSE (IF i > 1 THEN "," ELSE "") \o ScalarText(a[i]) \o ItemsText(a, i + 1)

JSONText(v) ==
    IF v.t = "array" THEN "[" \o ItemsText(v.a, 1) \o "]" ELSE ScalarText(v)

\* strings.HasPrefix(s, prefix)
HasPrefix(s, prefix) == Len(s) >= Len(prefix) /\ SubSeq(s, 1, Len(prefix)) = prefix

\* strings.TrimPrefix(s, prefix)
TrimPrefix(s, prefix) ==
    IF HasPrefix(s, prefix) THEN SubSeq(s, Len(prefix) + 1, Len(s)) ELSE s

\* m[k] = v on a map held as a function
Put(m, k, v) == [x \in DOMAIN m \cup {k} |-> IF x = k THEN v ELSE m[x]]

(***************************************************************************)
(* The backing connection (restserver.Conn) and the store behind it.  They *)
(* are external collaborators: a small Redis with string and hash keys,    *)
(* ACL users and the commands ECHO, GET, SET, INCR, HSET, HGETALL, AUTH,   *)
(* ACL GENPASS and ACL SETUSER, as the tests of the repository use them.   *)
(* A store is [users, db, unknown]: its users, its keys and the text it    *)
(* gives to a command it does not know.                                    *)
(***************************************************************************)
NoAuth == [Username |-> "", Password |-> ""]

\* a connection just acquired from GetConnFunc: the commands sent on it, the
\* replies they got, the user it is authenticated as, the calls of Close
NewConn == [log |-> <<>>, replies |-> <<>>, user |-> NoAuth, closed |-> 0]

ErrUnknownCommand == "ERR unknown command"
ErrNotAvailable == "ERR Command is not available"
ErrWrongArgs == "ERR wrong number of arguments"
ErrWrongPass == "WRONGPASS invalid username-password pair"
ErrWrongType == "WRONGTYPE Operation against a key holding the wrong kind of value"
ErrNoPerm == "NOPERM this user has no permissions to access one of the keys used as arguments"

\* a user of the store: the keys it may access are those with one of the
\* prefixes (ACL rule ~prefix*)
User(name, password, prefixes) ==
    [Username |-> name, Password |-> password, keys |-> prefixes]

\* values of the store: a string with its expiry ("" for none), or a hash
\* as its field-value pairs in insertion order
StringValue(s, ex) == [t |-> "string", s |-> s, ex |-> ex]
HashValue(pairs) == [t |-> "hash", h |-> pairs]

\* the connection's user may access the key: the default user may access
\* every key, another one the keys its rules allow
Permitted(store, conn, key) ==
    \/ conn.user = NoAuth
    \/ \E u \in store.users :
        /\ u.Username = conn.user.Username
        /\ \E p \in u.keys : HasPrefix(key, p)

\* the decimal numbers the store's counters go through
IsInteger(s) == \E n \in 0..99 : ToString(n) = s
Atoi(s) == CHOOSE n \in 0..99 : ToString(n) = s

\* HSET key field value on the pairs of a hash
SetField(pairs, f, v) ==
    IF \E i \in 1..Len(pairs) : pairs[i][1] = f
    THEN [i \in 1..Len(pairs) |-> IF pairs[i][1] = f THEN <<f, v>> ELSE pairs[i]]
    ELSE Append(pairs, <<f, v>>)

\* the reply of HGETALL: fields and values, flattened
RECURSIVE FieldsAndValues(_)
FieldsAndValues(pairs) ==
    IF pairs = <<>> THEN <<>>
    ELSE <<Str(Head(pairs)[1]), Str(Head(pairs)[2])>> \o FieldsAndValues(Tail(pairs))

\* the rules of ACL SETUSER that start with mark, without the mark
Rules(a, mark) ==
    {TrimPrefix(a[i], mark) : i \in {j \in 3..Len(a) : HasPrefix(a[j], mark)}}

\* a key pattern prefix* as the prefix
PatternPrefix(p) ==
    IF Len(p) > 0 /\ SubSeq(p, Len(p), Len(p)) = "*" THEN SubSeq(p, 1, Len(p) - 1)
    ELSE p

\* ACL SETUSER name reset rule...: the user is replaced by one with the
\* password and the key patterns the rules give
SetUser(setOfUsers, a) ==
    {u \in setOfUsers : u.Username # a[2]} \cup
        {User(a[2],
              IF Rules(a, ">") = {} THEN "" ELSE CHOOSE p \in Rules(a, ">") : TRUE,
              {PatternPrefix(p) : p \in Rules(a, "~")})}

\* Conn.Do: the reply or the error of one command, the connection and the
\* store after it
ConnDo(store, gen, conn, name, args) ==
    LET a == [i \in 1..Len(args) |-> Sprint(args[i])]
        n == ToLower(name)
        ok(v, st) ==
            [reply |-> v, err |-> "", store |-> st,
             conn |-> [conn EXCEPT !.log = Append(@, <<name>> \o a),
                                   !.replies = Append(@, [reply |-> v, err |-> ""])]]
        fail(m) ==
            [reply |-> Null, err |-> m, store |-> store,
             conn |-> [conn EXCEPT !.log = Append(@, <<name>> \o a),
                                   !.replies = Append(@, [reply |-> Null, err |-> m])]]
        authed(v) ==
            [reply |-> v, err |-> "", store |-> store,
             conn |-> [conn EXCEPT !.log = Append(@, <<name>> \o a),
                                   !.replies = Append(@, [reply |-> v, err |-> ""]),
                                   !.user = [Username |-> a[1], Password |-> a[2]]]]
        put(k, v) == [store EXCEPT !.db = Put(@, k, v)]
        held(k) == k \in DOMAIN store.db
    IN  CASE n = "echo" ->
                IF Len(a) = 1 THEN ok(Str(a[1]), store) ELSE fail(ErrWrongArgs)
          [] n = "get" ->
                IF Len(a) # 1 THEN fail(ErrWrongArgs)
                ELSE IF ~Permitted(store, conn, a[1]) THEN fail(ErrNoPerm)
                ELSE IF ~held(a[1]) THEN ok(Null, store)
                ELSE IF store.db[a[1]].t # "string" THEN fail(ErrWrongType)
                ELSE ok(Str(store.db[a[1]].s), store)
          [] n = "set" ->
                IF Len(a) < 2 THEN fail(ErrWrongArgs)
                ELSE IF ~Permitted(store, conn, a[1]) THEN fail(ErrNoPerm)
                ELSE IF Len(a) = 2 THEN ok(Str("OK"), put(a[1], StringValue(a[2], "")))
                ELSE IF Len(a) = 4 /\ ToLower(a[3]) = "ex"
                THEN ok(Str("OK"), put(a[1], StringValue(a[2], a[4])))
                ELSE fail("ERR syntax error")
          [] n = "incr" ->
                IF Len(a) # 1 THEN fail(ErrWrongArgs)
                ELSE IF ~Permitted(store, conn, a[1]) THEN fail(ErrNoPerm)
                ELSE IF ~held(a[1]) THEN ok(Num(1), put(a[1], StringValue("1", "")))
                ELSE IF store.db[a[1]].t # "string" THEN fail(ErrWrongType)
                ELSE IF ~IsInteger(store.db[a[1]].s) 
                THEN fail("ERR value is not an integer or out of range")
                ELSE ok(Num(Atoi(store.db[a[1]].s) + 1),
                        put(a[1], StringValue(ToString(Atoi(store.db[a[1]].s) + 1),
                                              store.db[a[1]].ex)))
          [] n = "hset" ->
                IF Len(a) # 3 THEN fail(ErrWrongArgs)
                ELSE IF ~Permitted(store, conn, a[1]) THEN fail(ErrNoPerm)
                ELSE IF ~held(a[1])
                THEN ok(Num(1), put(a[1], HashValue(<<<<a[2], a[3]>>>>)))
                ELSE IF store.db[a[1]].t # "hash" THEN fail(ErrWrongType)
                ELSE ok(Num(Len(SetField(store.db[a[1]].h, a[2], a[3]))
                                - Len(store.db[a[1]].h)),
                        put(a[1], HashValue(SetField(store.db[a[1]].h, a[2], a[3]))))
          [] n = "hgetall" ->
                IF Len(a) # 1 THEN fail(ErrWrongArgs)
                ELSE IF ~Permitted(store, conn, a[1]) THEN fail(ErrNoPerm)
                ELSE IF ~held(a[1]) THEN ok(Arr(<<>>), store)
                ELSE IF store.db[a[1]].t # "hash" THEN fail(ErrWrongType)
                ELSE ok(Arr(FieldsAndValues(store.db[a[1]].h)), store)
          [] n = "auth" ->
                IF /\ Len(a) = 2
                   /\ \E u \in store.users : u.Username = a[1] /\ u.Password = a[2]
                THEN authed(Str("OK"))
                ELSE fail(ErrWrongPass)
          [] n = "acl" /\ Len(a) = 1 /\ ToLower(a[1]) = "genpass" -> ok(gen, store)
          [] n = "acl" /\ Len(a) >= 2 /\ ToLower(a[1]) = "setuser" ->
                ok(Str("OK"), [store EXCEPT !.users = SetUser(@, a)])
          [] OTHER -> fail(store.unknown)

\* Conn.Close
ConnClose(conn) == [conn EXCEPT !.closed = @ + 1]

(***************************************************************************)
(* The REST server: restserver.Server.  A Server value s is [APIToken,     *)
(* unknown]: its admin token, and the text the store behind GetConnFunc    *)
(* gives to unknown commands.  The world w is what the handlers share:     *)
(* [mu, restTokens, users, db, inserted].  A handler hd is the state of    *)
(* one ServeHTTP call.                                                     *)
(***************************************************************************)
\* Server.APIToken, the admin token the server is configured with
AdminToken == "admintoken"

\* an HTTP body: no bytes at all, bytes that are not JSON, or a JSON document
EmptyBody == [k |-> "empty"]
TextBody(s) == [k |-> "text", s |-> s]
JSONBody(doc) == [k |-> "json", doc |-> doc]

\* string(body): the raw bytes of a body
Raw(body) ==
    CASE body.k = "empty" -> ""
      [] body.k = "text" -> body.s
      [] OTHER -> JSONText(body.doc)

\* the Go values handed to reply: nil, errorResult, successResult, []interface{}
Nil == [go |-> "nil"]
errorResult(msg) == [go |-> "errorResult", Error |-> msg]
successResult(v) == [go |-> "successResult", Result |-> v]
Slice(items) == [go |-> "slice", items |-> items]

\* json.NewEncoder(w).Encode(v) for the values handed to reply
RECURSIVE Encode(_)
Encode(v) ==
    CASE v.go = "errorResult" -> Obj([error |-> Str(v.Error)])
      [] v.go = "successResult" -> Obj([result |-> v.Result])
      [] v.go = "slice" -> Arr([i \in 1..Len(v.items) |-> Encode(v.items[i])])
      [] OTHER -> Null

\* reply: the status, and the encoded value unless it is nil
reply(v, status) ==
    [status |-> status, body |-> IF v.go = "nil" THEN EmptyBody ELSE JSONBody(Encode(v))]

\* r.URL.Query().Get("_token"): the value of the first _token pair, "" if none
queryToken(query) ==
    LET hits == {i \in 1..Len(query) : query[i][1] = "_token"}
        first == CHOOSE i \in hits : \A j \in hits : i <= j
    IN  IF hits = {} THEN ""
        ELSE IF Len(query[first]) < 2 THEN "" ELSE query[first][2]

\* requestToken looking at the Authorization header first
requestTokenHeaderFirst(r) ==
    IF TrimPrefix(r.authorization, "Bearer ") = "" THEN queryToken(r.query)
    ELSE TrimPrefix(r.authorization, "Bearer ")

\* requestToken: the _token query value, else the Authorization header
\* with its "Bearer " prefix trimmed
requestToken(r) ==
    IF queryToken(r.query) = "" THEN TrimPrefix(r.authorization, "Bearer ")
    ELSE queryToken(r.query)

\* sync.Mutex: the zero value is an unlocked mutex
Unlocked == 0

\* s.mu.Lock() ignoring the state of the mutex
lockableAlways(m) == TRUE

\* s.mu.Lock() returns only when no goroutine holds the mutex
lockable(m) == m = Unlocked

\* no response: ServeHTTP has not replied, or a panic cut it short
NoResponse == [status |-> 0, body |-> EmptyBody]

\* a ServeHTTP call that has not run any statement yet: its request, and the
\* token map as it is when the request arrives
NewHandler(r, before) ==
    [pc |-> "start", r |-> r, before |-> before, ok |-> FALSE, userPass |-> NoAuth,
     acquired |-> FALSE, conn |-> NewConn, pipeline |-> FALSE, todo |-> <<>>,
     results |-> <<>>, cmd |-> "", args |-> <<>>, cred |-> NoAuth, token |-> Null,
     gens |-> <<>>, issued |-> <<>>, panic |-> FALSE, step |-> "",
     resp |-> NoResponse]

\* finish closing the connection only when the request went through the switch
finishNoCloseOnError(hd, step, resp) ==
    [hd EXCEPT !.pc = "done", !.step = step, !.resp = resp,
               !.conn = IF hd.acquired /\ step = "dispatch" THEN ConnClose(@) ELSE @]

\* the return of ServeHTTP: the response is written and, once a connection
\* was acquired, the deferred conn.Close runs
finish(hd, step, resp) ==
    [hd EXCEPT !.pc = "done", !.step = step, !.resp = resp,
               !.conn = IF hd.acquired THEN ConnClose(@) ELSE @]

\* replyPipeline answering 400 as soon as one inner command failed
replyPipelineEscalate(hd) ==
    finish(hd, "dispatch",
           reply(Slice(hd.results),
                 IF \E i \in 1..Len(hd.results) : hd.results[i].go = "errorResult"
                 THEN StatusBadRequest ELSE StatusOK))

\* reply(w, results, http.StatusOK) at the end of the pipeline loop
replyPipeline(hd) == finish(hd, "dispatch", reply(Slice(hd.results), StatusOK))

RECURSIVE pipelineLoop(_)

\* appendResult keeping no entry for an inner command that failed
appendResultSkipFailed(hd, v) ==
    pipelineLoop([hd EXCEPT !.todo = Tail(@),
                            !.results = IF v.go = "errorResult" THEN @
                                        ELSE Append(@, v)])

\* results = append(results, v): the end of an iteration of the pipeline loop
appendResult(hd, v) ==
    pipelineLoop([hd EXCEPT !.todo = Tail(@), !.results = Append(@, v)])

\* execCmd returns (v, code) to the branch of the switch that called it:
\* the pipeline loop appends v, the other two branches reply and return
returned(hd, v, code) ==
    IF hd.pipeline THEN appendResult(hd, v)
    ELSE finish(hd, "dispatch", reply(v, code))

ErrInvalidSyntax == "ERR invalid syntax. Usage: ACL RESTTOKEN username password"

\* the credential ACL RESTTOKEN is asked a token for
credential(args) == [Username |-> Sprint(args[2]), Password |-> Sprint(args[3])]

\* execACLRestToken rejecting too few arguments only
execACLRestTokenAtLeast(hd, cmd, args) ==
    IF Len(args) < 3
    THEN returned(hd, errorResult(ErrInvalidSyntax), StatusBadRequest)
    ELSE [hd EXCEPT !.pc = "tokenAuth", !.cred = credential(args)]

\* Server.execACLRestToken up to its AUTH: the arguments are counted, then
\* AUTH user pwd is sent on the connection
execACLRestToken(hd, cmd, args) ==
    IF Len(args) # 3
    THEN returned(hd, errorResult(ErrInvalidSyntax), StatusBadRequest)
    ELSE [hd EXCEPT !.pc = "tokenAuth", !.cred = credential(args)]

\* Server.execCmd up to its conn.Do: ACL RESTTOKEN is handled by the server,
\* any other command is sent on the connection
execCmd(hd, cmd, args) ==
    IF ToLower(cmd) = "acl" /\ Len(args) > 0 /\ ToLower(Sprint(args[1])) = "resttoken"
    THEN execACLRestToken(hd, cmd, args)
    ELSE [hd EXCEPT !.pc = "command", !.cmd = cmd, !.args = args]

\* pipelineLoop with a break: the loop ends at the first inner command that fails
pipelineLoopBreak(hd) ==
    IF \/ hd.todo = <<>>
       \/ hd.results # <<>> /\ hd.results[Len(hd.results)].go = "errorResult"
    THEN replyPipeline(hd)
    ELSE IF Len(Head(hd.todo)) = 0
    THEN appendResult(hd, errorResult("ERR empty pipeline command"))
    ELSE execCmd(hd, Sprint(Head(hd.todo)[1]), Tail(Head(hd.todo)))

\* the loop of the /pipeline branch from the inner commands still to run
\* (todo): an empty one gets its error entry, another one is handed to
\* execCmd; after the last one the results are the response
pipelineLoop(hd) ==
    IF hd.todo = <<>> THEN replyPipeline(hd)
    ELSE IF Len(Head(hd.todo)) = 0
    THEN appendResult(hd, errorResult("ERR empty pipeline command"))
    ELSE execCmd(hd, Sprint(Head(hd.todo)[1]), Tail(Head(hd.todo)))

\* json.Unmarshal(body, &args) with args []interface{}
UnmarshalCommand(body) ==
    IF body.k = "json" /\ body.doc.t = "array" THEN [ok |-> TRUE, args |-> body.doc.a]
    ELSE IF body.k = "json" /\ body.doc.t = "null" THEN [ok |-> TRUE, args |-> <<>>]
    ELSE [ok |-> FALSE, args |-> <<>>]

\* json.Unmarshal(body, &cmds) with cmds [][]interface{}
UnmarshalPipeline(body) ==
    IF body.k = "json" /\ body.doc.t = "null" THEN [ok |-> TRUE, cmds |-> <<>>]
    ELSE IF /\ body.k = "json"
            /\ body.doc.t = "array"
            /\ \A i \in 1..Len(body.doc.a) : body.doc.a[i].t \in {"array", "null"}
    THEN [ok |-> TRUE,
          cmds |-> [i \in 1..Len(body.doc.a) |->
                        IF body.doc.a[i].t = "array" THEN body.doc.a[i].a ELSE <<>>]]
    ELSE [ok |-> FALSE, cmds |-> <<>>]

\* strings.TrimSuffix(path, "/") on a path held as strings.Split(path, "/")
TrimSuffixSlash(path) ==
    IF Len(path) >= 2 /\ path[Len(path)] = "" THEN SubSeq(path, 1, Len(path) - 1)
    ELSE path

RootPath == <<"">>
PipelinePath == <<"", "pipeline">>

\* the segments of the default branch: path, then body, then query pairs
RECURSIVE Flatten(_)
Flatten(parts) ==
    IF parts = <<>> THEN <<>> ELSE Head(parts) \o Flatten(Tail(parts))

\* segmentsOf with the query pairs put before the body
segmentsOfQueryFirst(r) ==
    Tail(r.path)
        \o Flatten(r.query)
        \o (IF r.body.k # "empty" THEN <<Raw(r.body)>> ELSE <<>>)

segmentsOf(r) ==
    Tail(r.path)
        \o (IF r.body.k # "empty" THEN <<Raw(r.body)>> ELSE <<>>)
        \o Flatten(r.query)

\* serveRoot handing the whole array, command name included, as arguments
serveRootKeepName(hd) ==
    LET u == UnmarshalCommand(hd.r.body)
    IN  IF ~u.ok
        THEN finish(hd, "dispatch",
                    reply(errorResult("ERR failed to parse command"), StatusBadRequest))
        ELSE IF Len(u.args) = 0
        THEN finish(hd, "dispatch",
                    reply(errorResult("ERR empty command"), StatusBadRequest))
        ELSE execCmd(hd, Sprint(u.args[1]), u.args)

\* case "": a full single command in the body
serveRoot(hd) ==
    LET u == UnmarshalCommand(hd.r.body)
    IN  IF ~u.ok
        THEN finish(hd, "dispatch",
                    reply(errorResult("ERR failed to parse command"), StatusBadRequest))
        ELSE IF Len(u.args) = 0
        THEN finish(hd, "dispatch",
                    reply(errorResult("ERR empty command"), StatusBadRequest))
        ELSE execCmd(hd, Sprint(u.args[1]), Tail(u.args))

\* case "/pipeline": multiple full commands in the body
servePipeline(hd) ==
    LET u == UnmarshalPipeline(hd.r.body)
    IN  IF ~u.ok
        THEN finish(hd, "dispatch",
                    reply(errorResult("ERR failed to parse pipeline request"),
                          StatusBadRequest))
        ELSE IF Len(u.cmds) = 0
        THEN finish(hd, "dispatch",
                    reply(errorResult("ERR empty pipeline request"), StatusBadRequest))
        ELSE pipelineLoop([hd EXCEPT !.pipeline = TRUE, !.todo = u.cmds])

\* execSegments handing every segment, the first one too, as arguments
execSegmentsKeepName(hd, segments) ==
    execCmd(hd, segments[1], [i \in 1..Len(segments) |-> Str(segments[i])])

\* the command of the default branch: segments[0] and segments[1:] as arguments
execSegments(hd, segments) ==
    execCmd(hd, segments[1], [i \in 1..(Len(segments) - 1) |-> Str(segments[i + 1])])

\* default: the single command is made of the path, the body and the query
servePath(hd) == execSegments(hd, segmentsOf(hd.r))

\* the switch of ServeHTTP on the path with any trailing slash removed
dispatch(hd) ==
    IF TrimSuffixSlash(hd.r.path) = RootPath THEN serveRoot(hd)
    ELSE IF TrimSuffixSlash(hd.r.path) = PipelinePath THEN servePipeline(hd)
    ELSE servePath(hd)

\* the envelope execCmd gives to the outcome d of conn.Do, returned to the
\* branch that called execCmd
envelope(hd, d) ==
    IF d.err # ""
    THEN returned([hd EXCEPT !.conn = d.conn], errorResult(d.err), StatusBadRequest)
    ELSE returned([hd EXCEPT !.conn = d.conn], successResult(d.reply), StatusOK)

\* afterConnAuth going on to the command although the AUTH failed
afterConnAuthIgnore(hd, d) == dispatch([hd EXCEPT !.conn = d.conn])

\* ServeHTTP after the AUTH of the token's identity returned d: its failure
\* is the response, else the switch on the path runs
afterConnAuth(hd, d) ==
    IF d.err # ""
    THEN finish([hd EXCEPT !.conn = d.conn], "connAuth",
                reply(errorResult(d.err), StatusBadRequest))
    ELSE dispatch([hd EXCEPT !.conn = d.conn])

\* gate reading the body before it looks at the method
gateBodyFirst(hd) ==
    IF hd.r.readErr
    THEN finish(hd, "body", reply(errorResult("read error"), StatusInternalServerError))
    ELSE IF hd.r.method \notin {"GET", "POST"}
    THEN finish(hd, "method", reply(Nil, StatusMethodNotAllowed))
    ELSE [hd EXCEPT !.pc = "readBody"]

\* ServeHTTP once io.ReadAll(r.Body) returned: its error is the response,
\* else the connection is acquired and, for a token's identity, AUTH is
\* sent on it
readBody(hd) ==
    IF hd.r.readErr
    THEN finish(hd, "body", reply(errorResult("read error"), StatusInternalServerError))
    ELSE IF hd.userPass # NoAuth
    THEN [hd EXCEPT !.acquired = TRUE, !.pc = "connAuth"]
    ELSE dispatch([hd EXCEPT !.acquired = TRUE])

\* ServeHTTP once the request is authenticated: the method is checked, then
\* the body is read
gate(hd) ==
    IF hd.r.method \notin {"GET", "POST"}
    THEN finish(hd, "method", reply(Nil, StatusMethodNotAllowed))
    ELSE [hd EXCEPT !.pc = "readBody"]

\* ServeHTTP looking at the method before it authenticates the request
ServeHTTPMethodFirst(s, r, before) ==
    IF r.method \notin {"GET", "POST"}
    THEN finish(NewHandler(r, before), "method", reply(Nil, StatusMethodNotAllowed))
    ELSE IF requestToken(r) = s.APIToken
    THEN gate([NewHandler(r, before) EXCEPT !.ok = TRUE])
    ELSE [NewHandler(r, before) EXCEPT !.pc = "authLock"]

\* Server.ServeHTTP from its first statement: authenticate compares the
\* request's token with APIToken without taking the mutex; another token is
\* looked up in the token map under the mutex
ServeHTTP(s, r, before) ==
    IF requestToken(r) = s.APIToken
    THEN gate([NewHandler(r, before) EXCEPT !.ok = TRUE])
    ELSE [NewHandler(r, before) EXCEPT !.pc = "authLock"]

\* authenticate: userPass, ok := s.restTokens[tok]
lookup(hd, m) ==
    IF requestToken(hd.r) \in DOMAIN m
    THEN [hd EXCEPT !.pc = "authUnlock", !.ok = TRUE, !.userPass = m[requestToken(hd.r)]]
    ELSE [hd EXCEPT !.pc = "authUnlock"]

\* authenticate returns: 401 when the token was not found
authenticated(hd) ==
    IF ~hd.ok
    THEN finish(hd, "authenticate",
                reply(errorResult("Unauthorized"), StatusUnauthorized))
    ELSE gate(hd)

\* afterAuth going on to ACL GENPASS whatever AUTH returned
afterAuthIgnore(hd, d) == [hd EXCEPT !.conn = d.conn, !.pc = "genpass"]

\* afterAuth reporting the failure of AUTH as a syntax error
afterAuthAsSyntaxError(hd, d) ==
    IF d.err # ""
    THEN returned([hd EXCEPT !.conn = d.conn], errorResult(ErrInvalidSyntax),
                  StatusBadRequest)
    ELSE [hd EXCEPT !.conn = d.conn, !.pc = "genpass"]

\* execACLRestToken after its AUTH returned d: the failure is the outcome of
\* the command, else ACL GENPASS is sent
afterAuth(hd, d) ==
    IF d.err # ""
    THEN returned([hd EXCEPT !.conn = d.conn], errorResult(d.err), StatusBadRequest)
    ELSE [hd EXCEPT !.conn = d.conn, !.pc = "genpass"]

\* execACLRestToken after ACL GENPASS returned d: token := res.(string)
\* panics when the reply is no string; the deferred conn.Close runs and no
\* response is written
issueToken(hd, d) ==
    IF d.err # ""
    THEN returned([hd EXCEPT !.conn = d.conn], errorResult(d.err), StatusBadRequest)
    ELSE IF d.reply.t # "string"
    THEN finish([hd EXCEPT !.conn = d.conn, !.panic = TRUE, !.gens = Append(@, d.reply)],
                "dispatch", NoResponse)
    ELSE [hd EXCEPT !.conn = d.conn, !.pc = "issueLock", !.token = d.reply,
                    !.gens = Append(@, d.reply)]

\* setToken leaving the map as it is
setTokenNoRecord(m, token, a) == m

\* setToken on a map made anew
setTokenReplace(m, token, a) == [k \in {token} |-> a]

\* s.restTokens[token] = a
setToken(m, token, a) == Put(m, token, a)

\* execACLRestToken returns the token with status 200
issued(hd) ==
    returned([hd EXCEPT !.issued = Append(@, <<hd.token.s, hd.cred>>)],
             successResult(hd.token), StatusOK)

\* the store a connection of the server s talks to, in the world w
Store(s, w) == [users |-> w.users, db |-> w.db, unknown |-> s.unknown]

\* the world after a round trip with outcome d
Stored(w, d) == [w EXCEPT !.users = d.store.users, !.db = d.store.db]

\* the handler's steps that send a command and get the outcome d
answered(hd, d) ==
    CASE hd.pc = "connAuth" -> afterConnAuth(hd, d)
      [] hd.pc = "command" -> envelope(hd, d)
      [] hd.pc = "tokenAuth" -> afterAuth(hd, d)
      [] OTHER -> issueToken(hd, d)

\* the command a handler sends at its next round trip
outgoing(hd) ==
    CASE hd.pc = "connAuth" ->
            [name |-> "AUTH",
             args |-> <<Str(hd.userPass.Username), Str(hd.userPass.Password)>>]
      [] hd.pc = "command" -> [name |-> hd.cmd, args |-> hd.args]
      [] hd.pc = "tokenAuth" ->
            [name |-> "AUTH", args |-> <<Str(hd.cred.Username), Str(hd.cred.Password)>>]
      [] OTHER -> [name |-> "ACL", args |-> <<Str("GENPASS")>>]

\* a round trip: the store runs the command, the handler goes on with the
\* outcome
roundTrip(hd, w, d) == [hd |-> answered(hd, d), w |-> Stored(w, d)]

\* one step of the handler h of the server s in the world w; gen is what
\* the store answers to ACL GENPASS
step(s, hd, w, gen, h) ==
    CASE hd.pc = "authLock" ->
            [hd |-> [hd EXCEPT !.pc = "authRead"], w |-> [w EXCEPT !.mu = h]]
      [] hd.pc = "authRead" -> [hd |-> lookup(hd, w.restTokens), w |-> w]
      [] hd.pc = "authUnlock" ->
            [hd |-> authenticated(hd), w |-> [w EXCEPT !.mu = Unlocked]]
      [] hd.pc = "readBody" -> [hd |-> readBody(hd), w |-> w]
      [] hd.pc \in {"connAuth", "command", "tokenAuth", "genpass"} ->
            roundTrip(hd, w, ConnDo(Store(s, w), gen, hd.conn,
                                    outgoing(hd).name, outgoing(hd).args))
      [] hd.pc = "issueLock" ->
            [hd |-> [hd EXCEPT !.pc = "issueCheck"], w |-> [w EXCEPT !.mu = h]]
      [] hd.pc = "issueCheck" ->
            [hd |-> [hd EXCEPT !.pc = IF DOMAIN w.restTokens = {} THEN "issueMake"
                                      ELSE "issueStore"],
             w |-> w]
      [] hd.pc = "issueMake" ->
            [hd |-> [hd EXCEPT !.pc = "issueStore"],
             w |-> [w EXCEPT !.restTokens = [k \in {} |-> NoAuth]]]
      [] hd.pc = "issueStore" ->
            [hd |-> [hd EXCEPT !.pc = "issueUnlock"],
             w |-> [w EXCEPT !.restTokens = setToken(@, hd.token.s, hd.cred),
                             !.inserted = Put(@, hd.token.s, hd.cred)]]
      [] hd.pc = "issueUnlock" ->
            [hd |-> issued(hd), w |-> [w EXCEPT !.mu = Unlocked]]
      [] OTHER -> [hd |-> hd, w |-> w]

\* a handler running alone from hd to its return: no other handler and no
\* other client of the store takes a step in between; gens are the
\* store's answers to ACL GENPASS, in order
RECURSIVE run(_, _, _, _)
resume(s, o, gens) == run(s, o.hd, o.w, gens)

run(s, hd, w, gens) ==
    IF hd.pc = "done" THEN [hd |-> hd, w |-> w]
    ELSE resume(s, step(s, hd, w, gens[(Len(hd.gens) % Len(gens)) + 1], 1), gens)

(***************************************************************************)
(* The HTTP requests the server is driven with.  A request holds its       *)
(* method, its path as strings.Split(path, "/"), its raw query as the      *)
(* strings.SplitN(part, "=", 2) of each "&"-separated part, the value of   *)
(* its Authorization header, its body, and whether reading the body       *)
(* fails.                                                                  *)
(***************************************************************************)
SeqsUpTo(S, n) == UNION {[1..k -> S] : k \in 0..n}

Request(method, path, query, authorization, body, readErr) ==
    [method |-> method, path |-> path, query |-> query,
     authorization |-> authorization, body |-> body, readErr |-> readErr]

\* the Authorization header that carries a bearer token
Bearer(token) == "Bearer " \o token

\* the secrets ACL GENPASS may return
Secrets == {Str("secret1"), Str("secret2")}

\* the passwords the backing store may hold for user "user"
Passwords == {"pwd", "pwd2"}

\* Authorization headers: valid and unknown tokens, a header without the
\* Bearer prefix, and no header at all
ValidHeaders == {Bearer(x) : x \in {AdminToken} \cup {y.s : y \in Secrets}}
Headers == ValidHeaders \cup {Bearer("nosuchtoken"), "Basic dXNlcjpwd2Q=", ""}

CmdEcho == <<Str("ECHO"), Str("a")>>
CmdFail == <<Str("NOTACMD"), Str("a")>>
CmdSet == <<Str("SET"), Str("a"), Num(1)>>
CmdGet == <<Str("GET"), Str("a")>>
CmdHGetAll == <<Str("HGETALL"), Str("a")>>
CmdToken == <<Str("ACL"), Str("RESTTOKEN"), Str("user"), Str("pwd")>>
CmdTokenArity == <<Str("acl"), Str("resttoken"), Str("user")>>

\* the elements of a pipeline body: inner arrays, an empty one, and null
InnerCmds ==
    {Arr(c) : c \in {<<>>, CmdEcho, CmdFail, CmdGet, CmdToken}} \cup {Null}

\* pipelines that write a key and read it back, as the tests send them
StoredPipelines ==
    {<<CmdSet, CmdGet>>, <<CmdSet, CmdHGetAll, CmdGet>>,
     <<CmdSet, <<Str("INCR"), Str("a")>>, CmdGet>>,
     <<<<Str("HSET"), Str("a"), Str("f"), Str("1")>>, CmdHGetAll>>,
     <<CmdTokenArity, CmdEcho>>,
     <<<<Str("GET"), Str("user:a")>>, CmdGet>>}

PipelineBodies ==
    {JSONBody(Arr(q)) : q \in SeqsUpTo(InnerCmds, MaxPipe)}
        \cup {JSONBody(Arr([i \in 1..Len(q) |-> Arr(q[i])])) : q \in StoredPipelines}
        \cup {EmptyBody, TextBody("test"), JSONBody(Null), JSONBody(Arr(CmdEcho))}

CommandBodies ==
    {JSONBody(Arr(c)) :
        c \in {<<>>, CmdEcho, CmdFail, CmdSet, CmdGet, CmdToken, CmdTokenArity,
               <<Str("ACL"), Str("RESTTOKEN")>>,
               <<Str("ACL"), Str("RESTTOKEN"), Str("user"), Str("pwd"), Str("pwd")>>,
               <<Str("ACL"), Str("SETUSER"), Str("user"), Str("reset"), Str(">pwd2"),
                 Str("on"), Str("~user:*"), Str("+@all")>>,
               <<Num(1)>>}}
        \cup {EmptyBody, TextBody("test"), JSONBody(Null), JSONBody(Str("a"))}

CommandPaths ==
    {<<"", "echo", "a">>, <<"", "echo", "a", "">>, <<"", "set", "a">>,
     <<"", "set", "a", "1">>,
     <<"", "notacmd">>, <<"", "acl", "resttoken", "user", "pwd">>,
     <<"", "acl", "resttoken", "user", "pwd2">>,
     <<"", "acl", "resttoken", "user", "bad">>}

Queries == {<<>>, <<<<"EX", "10">>>>, <<<<"1">>, <<"EX", "10">>>>,
            <<<<"_token", AdminToken>>>>, <<<<"_token", "">>>>}

\* requests that vary the token, the method and the body read
GateRequests ==
    {Request(m, p, <<>>, tk, JSONBody(Arr(CmdEcho)), e) :
        m \in {"GET", "POST", "PUT"}, p \in {RootPath, <<"", "echo", "a">>},
        tk \in Headers, e \in BOOLEAN}

RootRequests ==
    {Request("POST", p, <<>>, tk, b, FALSE) :
        p \in {RootPath, <<"", "">>}, tk \in {Bearer(AdminToken), Bearer("secret1")},
        b \in CommandBodies}

PipelineRequests ==
    {Request("POST", PipelinePath, <<>>, tk, b, FALSE) :
        tk \in {Bearer(AdminToken), Bearer("secret1")}, b \in PipelineBodies}
    \cup
    {Request("POST", PipelinePath \o <<"">>, <<>>, Bearer(AdminToken), b, FALSE) :
        b \in {JSONBody(Arr(<<Arr(CmdEcho), Arr(CmdFail)>>)), EmptyBody}}

\* path-encoded commands: the paths alone, a path with a body and a query,
\* and a path whose query or header carries the token
PathRequests ==
    {Request(m, p, <<>>, tk, EmptyBody, FALSE) :
        m \in {"GET", "POST"}, p \in CommandPaths,
        tk \in {Bearer(AdminToken), Bearer("secret1")}}
    \cup
    {Request("POST", <<"", "set", "a">>, q, tk, b, FALSE) :
        q \in Queries, tk \in {Bearer(AdminToken), ""},
        b \in {EmptyBody, TextBody("1"), JSONBody(Str("1"))}}
    \cup
    {Request("GET", <<"", "echo", "a">>, q, tk, EmptyBody, FALSE) :
        q \in Queries, tk \in ValidHeaders \cup {""}}

Requests == GateRequests \cup RootRequests \cup PipelineRequests \cup PathRequests

\* the requests concurrent handlers are given: issuances, commands under
\* the admin token, under a token ACL GENPASS may generate, under a token
\* nobody issued, and a pipeline of two issuances
ConcRequests ==
    {Request("POST", RootPath, <<>>, Bearer(AdminToken), JSONBody(Arr(c)), FALSE) :
        c \in {CmdToken, CmdSet, CmdGet}}
    \cup
    {Request("POST", RootPath, <<>>, Bearer(t), JSONBody(Arr(CmdEcho)), FALSE) :
        t \in {"secret1", "nosuchtoken"}}
    \cup
    {Request("POST", PipelinePath, <<>>, Bearer(AdminToken),
             JSONBody(Arr(<<Arr(CmdToken), Arr(CmdToken)>>)), FALSE)}

(***************************************************************************)
(* The server's actions.  handlers[h] is a ServeHTTP call; net/http runs   *)
(* one goroutine per request, all on the same Server.                      *)
(***************************************************************************)
Handlers == 1..NumHandlers

\* a handler between two requests
IdleHandler == [pc |-> "idle"]

\* the Server value as the tests configure it, in front of Redis
TheServer == [APIToken |-> AdminToken, unknown |-> ErrUnknownCommand]

\* what the handlers share
World ==
    [mu |-> mu, restTokens |-> restTokens, users |-> users, db |-> db,
     inserted |-> inserted]

\* no handler is running, the mutex is unlocked, no token was issued; the
\* store has the user the tests create, and no key
ServerInit ==
    /\ restTokens = [k \in {} |-> NoAuth]
    /\ users = {User("user", "pwd", {"user:"})}
    /\ db = [k \in {} |-> Null]
    /\ mu = Unlocked
    /\ handlers = [h \in Handlers |-> IdleHandler]
    /\ inserted = [k \in {} |-> NoAuth]

\* the handler h takes its next step: the handler and the world are as the
\* step leaves them
Advance(s, h, gen) ==
    \E o \in {step(s, handlers[h], World, gen, h)} :
        /\ handlers' = [handlers EXCEPT ![h] = o.hd]
        /\ mu' = o.w.mu
        /\ restTokens' = o.w.restTokens
        /\ users' = o.w.users
        /\ db' = o.w.db
        /\ inserted' = o.w.inserted
        /\ UNCHANGED clientVars

\* net/http calls ServeHTTP with a request: authenticate compares the token
\* with APIToken, and the handler stops where it waits next
Receive(s, h, requests) ==
    /\ handlers[h].pc = "idle"
    /\ \E r \in requests :
        handlers' = [handlers EXCEPT ![h] = ServeHTTP(s, r, restTokens)]
    /\ UNCHANGED <<clientVars, restTokens, users, db, mu, inserted>>

\* authenticate: s.mu.Lock()
AuthLock(s, h) == handlers[h].pc = "authLock" /\ lockable(mu) /\ Advance(s, h, Null)

\* authenticate: userPass, ok := s.restTokens[tok]
AuthRead(s, h) == handlers[h].pc = "authRead" /\ Advance(s, h, Null)

\* authenticate: s.mu.Unlock() and return; ServeHTTP answers 401, or goes
\* on to the method and the body
AuthUnlock(s, h) == handlers[h].pc = "authUnlock" /\ Advance(s, h, Null)

\* ServeHTTP: io.ReadAll(r.Body) returns
ReadBody(s, h) == handlers[h].pc = "readBody" /\ Advance(s, h, Null)

\* ServeHTTP: the round trip of the AUTH for the token's identity
ConnAuth(s, h) == handlers[h].pc = "connAuth" /\ Advance(s, h, Null)

\* execCmd: the round trip of conn.Do(cmd, args...)
Command(s, h) == handlers[h].pc = "command" /\ Advance(s, h, Null)

\* execACLRestToken: the round trip of AUTH user pwd
TokenAuth(s, h) == handlers[h].pc = "tokenAuth" /\ Advance(s, h, Null)

\* execACLRestToken: the round trip of ACL GENPASS, answered with one of
\* replies
Genpass(s, h, replies) ==
    handlers[h].pc = "genpass" /\ \E gen \in replies : Advance(s, h, gen)

\* execACLRestToken: s.mu.Lock()
IssueLock(s, h) == handlers[h].pc = "issueLock" /\ lockable(mu) /\ Advance(s, h, Null)

\* execACLRestToken: if s.restTokens == nil (the map is nil until the first
\* token is stored)
IssueCheck(s, h) == handlers[h].pc = "issueCheck" /\ Advance(s, h, Null)

\* execACLRestToken: s.restTokens = make(map[string]auth)
IssueMake(s, h) == handlers[h].pc = "issueMake" /\ Advance(s, h, Null)

\* execACLRestToken: s.restTokens[token] = auth{user, pwd}
IssueStore(s, h) == handlers[h].pc = "issueStore" /\ Advance(s, h, Null)

\* execACLRestToken: s.mu.Unlock(); the token is returned with status 200
IssueUnlock(s, h) == handlers[h].pc = "issueUnlock" /\ Advance(s, h, Null)

\* ServeHTTP has returned; the goroutine takes the next request
NextRequest(h) ==
    /\ handlers[h].pc = "done"
    /\ handlers' = [handlers EXCEPT ![h] = IdleHandler]
    /\ UNCHANGED <<clientVars, restTokens, users, db, mu, inserted>>

\* another client of the backing store changes the password of user
\* "user", at any moment
SetPassword ==
    /\ \E p \in Passwords :
        /\ User("user", p, {"user:"}) \notin users
        /\ users' = SetUser(users, <<"SETUSER", "user", "reset", ">" \o p, "on",
                                     "~user:*", "+@all">>)
    /\ UNCHANGED <<clientVars, restTokens, db, mu, handlers, inserted>>

\* the steps of the handler h of the server s
HandlerNext(s, h, requests, replies) ==
    \/ Receive(s, h, requests)
    \/ AuthLock(s, h)
    \/ AuthRead(s, h)
    \/ AuthUnlock(s, h)
    \/ ReadBody(s, h)
    \/ ConnAuth(s, h)
    \/ Command(s, h)
    \/ TokenAuth(s, h)
    \/ Genpass(s, h, replies)
    \/ IssueLock(s, h)
    \/ IssueCheck(s, h)
    \/ IssueMake(s, h)
    \/ IssueStore(s, h)
    \/ IssueUnlock(s, h)
    \/ NextRequest(h)

\* one request at a time, the store changing under it
ServerNext == HandlerNext(TheServer, 1, Requests, Secrets) \/ SetPassword

\* requests handled at the same time
ConcNext ==
    \/ \E h \in Handlers : HandlerNext(TheServer, h, ConcRequests, Secrets)
    \/ SetPassword

\* the request of ServerSpec, or the last one it handled
served == handlers[1]


(***************************************************************************)
(* The REST client: Request (src/unnamed/part_008).                        *)
(***************************************************************************)
\* errors: nil, an error that is not an *Error, an *Error, and a runtime panic
NoError == [k |-> "nil"]
PlainError(msg) == [k |-> "error", msg |-> msg]
Panic(msg) == [k |-> "panic", msg |-> msg]

\* strings.Cut(msg, " "): the text before the first space, and whether there is one
Cut(msg) ==
    LET spaces == {i \in 1..Len(msg) : SubSeq(msg, i, i) = " "}
        first == CHOOSE i \in spaces : \A j \in spaces : i <= j
    IN  IF spaces = {} THEN [before |-> msg, found |-> FALSE]
        ELSE [before |-> SubSeq(msg, 1, first - 1), found |-> TRUE]

\* newError taking the whole of a message without a space as its Kind
newErrorWholeWord(msg, ix) ==
    [k |-> "Error", Message |-> msg, Kind |-> Cut(msg).before, PipelineIndex |-> ix]

\* newError
newError(msg, ix) ==
    [k |-> "Error", Message |-> msg,
     Kind |-> IF Cut(msg).found THEN Cut(msg).before ELSE "",
     PipelineIndex |-> ix]

\* the arguments a caller may give to Send and ExecOne
GoString(s) == [go |-> "string", s |-> s]
GoBytes(s) == [go |-> "[]byte", s |-> s]
GoInt(n) == [go |-> "int", n |-> n]
GoInt64(n) == [go |-> "int64", n |-> n]
GoBool(b) == [go |-> "bool", b |-> b]
GoNil == [go |-> "nil"]
\* a value with a RedisArg method returning arg, printed by fmt as text
GoArgument(arg, text) == [go |-> "Argument", arg |-> arg, text |-> text]
\* a value of any other type, printed by fmt as text
GoOther(text) == [go |-> "other", text |-> text]

\* writeArg unwrapping a self-describing argument a second time
writeArgDeep(arg, argumentTypeOK) ==
    LET inner == IF arg.go = "Argument" /\ argumentTypeOK
                 THEN IF arg.arg.go = "Argument" THEN arg.arg.arg ELSE arg.arg
                 ELSE arg
    IN  CASE inner.go = "string" -> Str(inner.s)
          [] inner.go = "[]byte" -> Str(inner.s)
          [] inner.go = "int" -> Num(inner.n)
          [] inner.go = "int64" -> Num(inner.n)
          [] inner.go = "bool" -> IF inner.b THEN Str("1") ELSE Str("0")
          [] inner.go = "nil" -> Str("")
          [] OTHER -> Str(inner.text)

\* writeArg
RECURSIVE writeArg(_, _)
writeArg(arg, argumentTypeOK) ==
    CASE arg.go = "string" -> Str(arg.s)
      [] arg.go = "[]byte" -> Str(arg.s)
      [] arg.go = "int" -> Num(arg.n)
      [] arg.go = "int64" -> Num(arg.n)
      [] arg.go = "bool" -> IF arg.b THEN Str("1") ELSE Str("0")
      [] arg.go = "nil" -> Str("")
      [] arg.go = "Argument" ->
            IF argumentTypeOK THEN writeArg(arg.arg, FALSE) ELSE Str(arg.text)
      [] OTHER -> Str(arg.text)

ErrEmptyCommand == "upstashdis: empty command"
ErrNoCommand == "upstashdis: no command to execute"
ErrTooManyDst == "upstashdis: too many destination values"

\* Send queueing the command before it looks at its name
SendAlways(queue, cmd, args) ==
    [err |-> IF cmd = "" THEN PlainError(ErrEmptyCommand) ELSE NoError,
     req |-> Append(queue,
                    <<Str(cmd)>> \o [i \in 1..Len(args) |-> writeArg(args[i], TRUE)])]

\* Request.Send: the error returned and the queue after the call
Send(queue, cmd, args) ==
    IF cmd = "" THEN [err |-> PlainError(ErrEmptyCommand), req |-> queue]
    ELSE [err |-> NoError,
          req |-> Append(queue,
                         <<Str(cmd)>> \o [i \in 1..Len(args) |-> writeArg(args[i], TRUE)])]

\* Result: the Error text and the raw Result, absent when the field is absent
NilRaw == [t |-> "nil"]
Result(error, result) == [Error |-> error, Result |-> result]
\* a nil *Result
NilResult == [ptr |-> "nil"]

\* json.Unmarshal(b, &result) with result Result
UnmarshalResult(body) ==
    IF body.k # "json" THEN [ok |-> FALSE, v |-> Result("", NilRaw)]
    ELSE IF body.doc.t = "null" THEN [ok |-> TRUE, v |-> Result("", NilRaw)]
    ELSE IF body.doc.t # "object" THEN [ok |-> FALSE, v |-> Result("", NilRaw)]
    ELSE IF "error" \in DOMAIN body.doc.o /\ body.doc.o.error.t \notin {"string", "null"}
    THEN [ok |-> FALSE, v |-> Result("", NilRaw)]
    ELSE [ok |-> TRUE,
          v |-> Result(IF "error" \in DOMAIN body.doc.o /\ body.doc.o.error.t = "string"
                       THEN body.doc.o.error.s ELSE "",
                       IF "result" \in DOMAIN body.doc.o
                       THEN body.doc.o.result ELSE NilRaw)]

\* json.Unmarshal(raw, &results) with results []*Result
UnmarshalResults(body) ==
    IF body.k # "json" THEN [ok |-> FALSE, v |-> <<>>]
    ELSE IF body.doc.t = "null" THEN [ok |-> TRUE, v |-> <<>>]
    ELSE IF body.doc.t # "array" THEN [ok |-> FALSE, v |-> <<>>]
    ELSE IF \E i \in 1..Len(body.doc.a) :
                /\ body.doc.a[i].t # "null"
                /\ ~UnmarshalResult(JSONBody(body.doc.a[i])).ok
    THEN [ok |-> FALSE, v |-> <<>>]
    ELSE [ok |-> TRUE,
          v |-> [i \in 1..Len(body.doc.a) |->
                    IF body.doc.a[i].t = "null" THEN NilResult
                    ELSE UnmarshalResult(JSONBody(body.doc.a[i])).v]]

\* http.StatusText for the statuses a response may carry
StatusText(code) ==
    CASE code = StatusBadRequest -> "Bad Request"
      [] code = StatusUnauthorized -> "Unauthorized"
      [] code = StatusMethodNotAllowed -> "Method Not Allowed"
      [] code = StatusInternalServerError -> "Internal Server Error"
      [] code = StatusBadGateway -> "Bad Gateway"
      [] OTHER -> "OK"

\* fmt.Errorf("[%d]: %s", res.StatusCode, string(b))
statusError(code, text) == PlainError("[" \o ToString(code) \o "]: " \o text)

\* nonOK giving index -1 to every error envelope, single command or pipeline
nonOKMinusOne(pipeline, resp) ==
    IF resp.body.k = "empty"
    THEN statusError(resp.status, ToString(resp.status) \o " " \o StatusText(resp.status))
    ELSE IF UnmarshalResult(resp.body).ok /\ UnmarshalResult(resp.body).v.Error # ""
    THEN newError(UnmarshalResult(resp.body).v.Error, -1)
    ELSE statusError(resp.status, Raw(resp.body))

\* makeRequest on a response whose status is not 200
nonOK(pipeline, resp) ==
    IF resp.body.k = "empty"
    THEN statusError(resp.status, ToString(resp.status) \o " " \o StatusText(resp.status))
    ELSE IF UnmarshalResult(resp.body).ok /\ UnmarshalResult(resp.body).v.Error # ""
    THEN newError(UnmarshalResult(resp.body).v.Error, IF pipeline THEN -1 ELSE 0)
    ELSE statusError(resp.status, Raw(resp.body))

\* makeRequest from the response on: the results and the error it returns
readResponse(pipeline, resp) ==
    IF resp.status # StatusOK THEN [res |-> <<>>, err |-> nonOK(pipeline, resp)]
    ELSE IF pipeline
    THEN IF UnmarshalResults(resp.body).ok
         THEN [res |-> UnmarshalResults(resp.body).v, err |-> NoError]
         ELSE [res |-> <<>>, err |-> PlainError("json: cannot unmarshal")]
    ELSE IF UnmarshalResult(resp.body).ok
         THEN [res |-> <<UnmarshalResult(resp.body).v>>, err |-> NoError]
         ELSE [res |-> <<>>, err |-> PlainError("json: cannot unmarshal")]

\* the server the client talks to: the REST server in front of a store that
\* answers unknown commands as Upstash does
RemoteServer == [APIToken |-> AdminToken, unknown |-> ErrNotAvailable]

\* the server handles the request r in the world w: the handler at its
\* return, and the world it leaves
Remote(w, r) ==
    run(RemoteServer, ServeHTTP(RemoteServer, r, w.restTokens), w,
        <<Str("secret1"), Str("secret2")>>)

\* what the round trip may do: fail before any response, reach the REST
\* server, or be answered by a gateway with an empty or a non-JSON body
Transports == {"neterr", "server", "gateway-empty", "gateway-text"}

\* the round trips to any server: it may also answer 200 with an empty
\* array, with null, or with an array of one null
AnyTransports == Transports \cup {"ok-empty", "ok-null", "ok-nullentry"}

\* HTTPDoer.Do in the world w: the response to the HTTP request r
DoIn(w, transport, r) ==
    CASE transport = "server" -> Remote(w, r).hd.resp
      [] transport = "gateway-empty" -> [status |-> StatusBadGateway, body |-> EmptyBody]
      [] transport = "ok-empty" -> [status |-> StatusOK, body |-> JSONBody(Arr(<<>>))]
      [] transport = "ok-null" -> [status |-> StatusOK, body |-> JSONBody(Null)]
      [] transport = "ok-nullentry" ->
            [status |-> StatusOK, body |-> JSONBody(Arr(<<Null>>))]
      [] OTHER -> [status |-> StatusBadGateway, body |-> TextBody("<html>")]

\* HTTPDoer.Do: the response to the HTTP request r
Do(transport, r) == DoIn(World, transport, r)

\* the world after the HTTP requests of one call
After(w, transport, http) ==
    IF transport = "server" /\ http # <<>> THEN Remote(w, http[1]).w ELSE w

\* the HTTP request makeRequest builds
httpRequest(token, body, pipeline) ==
    Request("POST", IF pipeline THEN PipelinePath ELSE <<"", "">>, <<>>,
            Bearer(token), JSONBody(body), FALSE)

\* the results and error of makeRequest, with the HTTP requests it issued
sent(r, out) == [res |-> out.res, err |-> out.err, http |-> <<r>>]

\* Request.makeRequest
makeRequest(token, body, pipeline, transport) ==
    IF transport = "neterr"
    THEN [res |-> <<>>, err |-> PlainError("dial tcp: connection refused"),
          http |-> <<httpRequest(token, body, pipeline)>>]
    ELSE sent(httpRequest(token, body, pipeline),
              readResponse(pipeline, Do(transport, httpRequest(token, body, pipeline))))

\* exec truncating the queue only once the round trip succeeded
execKeepOnError(queue, token, transport) ==
    LET out == IF Len(queue) = 1
               THEN makeRequest(token, Arr(queue[1]), FALSE, transport)
               ELSE makeRequest(token, Arr([i \in 1..Len(queue) |-> Arr(queue[i])]),
                                TRUE, transport)
    IN  IF Len(queue) = 0
        THEN [res |-> <<>>, err |-> PlainError(ErrNoCommand), http |-> <<>>, req |-> queue]
        ELSE [req |-> IF out.err.k = "nil" THEN <<>> ELSE queue] @@ out

\* exec without the case for an empty queue: it is sent as an empty pipeline
execNoEmptyCheck(queue, token, transport) ==
    [req |-> <<>>] @@
    (IF Len(queue) = 1
     THEN makeRequest(token, Arr(queue[1]), FALSE, transport)
     ELSE makeRequest(token, Arr([i \in 1..Len(queue) |-> Arr(queue[i])]),
                      TRUE, transport))

\* exec sending every queue, a single command too, as a pipeline
execAlwaysPipeline(queue, token, transport) ==
    IF Len(queue) = 0
    THEN [res |-> <<>>, err |-> PlainError(ErrNoCommand), http |-> <<>>, req |-> queue]
    ELSE [req |-> <<>>] @@
         makeRequest(token, Arr([i \in 1..Len(queue) |-> Arr(queue[i])]), TRUE, transport)

\* exec leaving the queue as it was
execNoTruncate(queue, token, transport) ==
    IF Len(queue) = 0
    THEN [res |-> <<>>, err |-> PlainError(ErrNoCommand), http |-> <<>>, req |-> queue]
    ELSE [req |-> queue] @@
         (IF Len(queue) = 1
          THEN makeRequest(token, Arr(queue[1]), FALSE, transport)
          ELSE makeRequest(token, Arr([i \in 1..Len(queue) |-> Arr(queue[i])]),
                           TRUE, transport))

\* Request.exec: results, error, HTTP requests issued, and the queue it leaves
exec(queue, token, transport) ==
    IF Len(queue) = 0
    THEN [res |-> <<>>, err |-> PlainError(ErrNoCommand), http |-> <<>>, req |-> queue]
    ELSE [req |-> <<>>] @@
         (IF Len(queue) = 1
          THEN makeRequest(token, Arr(queue[1]), FALSE, transport)
          ELSE makeRequest(token, Arr([i \in 1..Len(queue) |-> Arr(queue[i])]),
                           TRUE, transport))

\* the destinations a caller may give: nil, a *string, an *int
DstKinds == {"nil", "*string", "*int"}

\* a destination no result was written to
Unset == [t |-> "unset"]

\* json.Unmarshal(raw, d): whether it succeeds and the value d points to after it
Unmarshal(raw, kind, old) ==
    IF raw.t = "null" THEN [ok |-> TRUE, v |-> old]
    ELSE IF \/ kind = "*string" /\ raw.t = "string"
            \/ kind = "*int" /\ raw.t = "number"
    THEN [ok |-> TRUE, v |-> raw]
    ELSE [ok |-> FALSE, v |-> old]

ErrUnmarshal == "json: cannot unmarshal into Go value"

Min(a, b) == IF a < b THEN a ELSE b

\* the loop of Exec returning as soon as it meets a failed result
RECURSIVE execLoopStop(_, _, _, _, _, _)
execLoopStop(res, dst, min, i, firstErr, vals) ==
    IF i > min THEN [err |-> firstErr, dst |-> vals]
    ELSE IF res[i] = NilResult
    THEN [err |-> Panic("nil pointer dereference"), dst |-> vals]
    ELSE IF res[i].Error # ""
    THEN [err |-> newError(res[i].Error, i - 1), dst |-> vals]
    ELSE IF dst[i] # "nil" /\ res[i].Result.t # "nil"
    THEN IF Unmarshal(res[i].Result, dst[i], vals[i]).ok
         THEN execLoopStop(res, dst, min, i + 1, firstErr,
                           [vals EXCEPT ![i] = Unmarshal(res[i].Result, dst[i], @).v])
         ELSE [err |-> PlainError(ErrUnmarshal), dst |-> vals]
    ELSE execLoopStop(res, dst, min, i + 1, firstErr, vals)

\* the loop of Exec over the first min results, from index i (1-based) on
RECURSIVE execLoop(_, _, _, _, _, _)
execLoop(res, dst, min, i, firstErr, vals) ==
    IF i > min THEN [err |-> firstErr, dst |-> vals]
    ELSE IF res[i] = NilResult
    THEN [err |-> Panic("nil pointer dereference"), dst |-> vals]
    ELSE IF res[i].Error # "" /\ firstErr.k = "nil"
    THEN execLoop(res, dst, min, i + 1, newError(res[i].Error, i - 1), vals)
    ELSE IF dst[i] # "nil" /\ res[i].Result.t # "nil"
    THEN IF Unmarshal(res[i].Result, dst[i], vals[i]).ok
         THEN execLoop(res, dst, min, i + 1, firstErr,
                       [vals EXCEPT ![i] = Unmarshal(res[i].Result, dst[i], @).v])
         ELSE [err |-> PlainError(ErrUnmarshal), dst |-> vals]
    ELSE execLoop(res, dst, min, i + 1, firstErr, vals)

\* Exec counting the destinations only after it has run its loop
ExecLateCount(dst, x) ==
    LET o == execLoop(x.res, dst, Min(Len(x.res), Len(dst)), 1, NoError,
                      [i \in 1..Len(dst) |-> Unset])
    IN  IF x.err.k # "nil" THEN [err |-> x.err, dst |-> [i \in 1..Len(dst) |-> Unset]]
        ELSE IF Len(dst) > Len(x.res)
        THEN [err |-> PlainError(ErrTooManyDst), dst |-> o.dst]
        ELSE o

\* Exec asking for exactly one destination per result
ExecStrictCount(dst, x) ==
    IF x.err.k # "nil" THEN [err |-> x.err, dst |-> [i \in 1..Len(dst) |-> Unset]]
    ELSE IF Len(dst) # Len(x.res)
    THEN [err |-> PlainError(ErrTooManyDst), dst |-> [i \in 1..Len(dst) |-> Unset]]
    ELSE execLoop(x.res, dst, Min(Len(x.res), Len(dst)), 1, NoError,
                  [i \in 1..Len(dst) |-> Unset])

\* Request.Exec once exec returned x: the error returned and the destinations
Exec(dst, x) ==
    IF x.err.k # "nil" THEN [err |-> x.err, dst |-> [i \in 1..Len(dst) |-> Unset]]
    ELSE IF Len(dst) > Len(x.res)
    THEN [err |-> PlainError(ErrTooManyDst), dst |-> [i \in 1..Len(dst) |-> Unset]]
    ELSE execLoop(x.res, dst, Min(Len(x.res), Len(dst)), 1, NoError,
                  [i \in 1..Len(dst) |-> Unset])

\* ExecOne reporting the position of its command in the transmitted batch
ExecOneIndex(dst, x) ==
    IF x.err.k # "nil" THEN [err |-> x.err, dst |-> <<Unset>>]
    ELSE IF Len(x.res) = 0
    THEN [err |-> Panic("index out of range"), dst |-> <<Unset>>]
    ELSE IF x.res[Len(x.res)] = NilResult
    THEN [err |-> Panic("nil pointer dereference"), dst |-> <<Unset>>]
    ELSE IF x.res[Len(x.res)].Error # ""
    THEN [err |-> newError(x.res[Len(x.res)].Error, Len(x.res) - 1), dst |-> <<Unset>>]
    ELSE IF dst = "nil" THEN [err |-> NoError, dst |-> <<Unset>>]
    ELSE IF Unmarshal(x.res[Len(x.res)].Result, dst, Unset).ok
            /\ x.res[Len(x.res)].Result.t # "nil"
    THEN [err |-> NoError,
          dst |-> <<Unmarshal(x.res[Len(x.res)].Result, dst, Unset).v>>]
    ELSE [err |-> PlainError(ErrUnmarshal), dst |-> <<Unset>>]

\* ExecOne looking at the first result of the batch instead of the last
ExecOneFirst(dst, x) ==
    IF x.err.k # "nil" THEN [err |-> x.err, dst |-> <<Unset>>]
    ELSE IF Len(x.res) = 0
    THEN [err |-> Panic("index out of range"), dst |-> <<Unset>>]
    ELSE IF x.res[1] = NilResult
    THEN [err |-> Panic("nil pointer dereference"), dst |-> <<Unset>>]
    ELSE IF x.res[1].Error # ""
    THEN [err |-> newError(x.res[1].Error, 0), dst |-> <<Unset>>]
    ELSE IF dst = "nil" THEN [err |-> NoError, dst |-> <<Unset>>]
    ELSE IF Unmarshal(x.res[1].Result, dst, Unset).ok /\ x.res[1].Result.t # "nil"
    THEN [err |-> NoError, dst |-> <<Unmarshal(x.res[1].Result, dst, Unset).v>>]
    ELSE [err |-> PlainError(ErrUnmarshal), dst |-> <<Unset>>]

\* Request.ExecOne once exec returned x: the error returned and the destination
ExecOne(dst, x) ==
    IF x.err.k # "nil" THEN [err |-> x.err, dst |-> <<Unset>>]
    ELSE IF Len(x.res) = 0
    THEN [err |-> Panic("index out of range"), dst |-> <<Unset>>]
    ELSE IF x.res[Len(x.res)] = NilResult
    THEN [err |-> Panic("nil pointer dereference"), dst |-> <<Unset>>]
    ELSE IF x.res[Len(x.res)].Error # ""
    THEN [err |-> newError(x.res[Len(x.res)].Error, 0), dst |-> <<Unset>>]
    ELSE IF dst = "nil" THEN [err |-> NoError, dst |-> <<Unset>>]
    ELSE IF Unmarshal(x.res[Len(x.res)].Result, dst, Unset).ok
            /\ x.res[Len(x.res)].Result.t # "nil"
    THEN [err |-> NoError,
          dst |-> <<Unmarshal(x.res[Len(x.res)].Result, dst, Unset).v>>]
    ELSE [err |-> PlainError(ErrUnmarshal), dst |-> <<Unset>>]

\* Request.ExecRaw once exec returned x: the results and the error returned
ExecRaw(x) == [err |-> x.err, res |-> x.res]

(***************************************************************************)
(* The calls made on one Request.  call keeps the last call: its name and  *)
(* inputs, the queue before it, what it returned (err, res, dst), the      *)
(* reply batch and the error exec returned to it (batch, xerr), the HTTP   *)
(* requests it issued and the queue it left.                               *)
(***************************************************************************)
NoCall == [op |-> "none"]

\* the commands a caller sends: no name, commands that succeed with a string
\* or a number, and commands the backing store rejects
SendInputs ==
    {[cmd |-> "", args |-> <<>>],
     [cmd |-> "ECHO", args |-> <<GoString("a")>>],
     [cmd |-> "INCR", args |-> <<GoString("k")>>],
     [cmd |-> "NOTACMD", args |-> <<GoString("a")>>],
     [cmd |-> "ECHO", args |-> <<GoArgument(GoString("a"), "{a}")>>],
     [cmd |-> "ECHO", args |-> <<GoArgument(GoArgument(GoString("a"), "{a}"), "{{a}}")>>]}

\* the record of a call that ran exec with outcome x and returned o
Returned(op, in, before, x, o) ==
    [op |-> op, in |-> in, before |-> before, transport |-> in.transport,
     err |-> o.err, res |-> o.res, dst |-> o.dst,
     batch |-> x.res, xerr |-> x.err, http |-> x.http, req |-> x.req,
     world |-> World]

\* the counter the commands of SendInputs increment
Counter(keys) == IF "k" \in DOMAIN keys THEN Atoi(keys["k"].s) ELSE 0

\* highest value of the counter at which a caller still executes commands
MaxCounter == 2

\* the server has handled the HTTP request of the call c, if it got one: the
\* store is as the request left it
Answered(c) ==
    /\ Counter(db) <= MaxCounter
    /\ \E w \in {After(World, c.transport, c.http)} :
        /\ restTokens' = w.restTokens
        /\ users' = w.users
        /\ db' = w.db
        /\ inserted' = w.inserted
    /\ UNCHANGED <<mu, handlers>>

ClientInit ==
    /\ req = <<>>
    /\ tok \in {AdminToken, "nosuchtoken"}
    /\ call = NoCall

\* r.Send(cmd, args...)
SendCall ==
    /\ call.op = "none"
    /\ Len(req) < MaxQueue
    /\ \E in \in SendInputs :
        call' = [op |-> "Send", in |-> in, before |-> req, transport |-> "none",
                 err |-> Send(req, in.cmd, in.args).err, res |-> <<>>, dst |-> <<>>,
                 batch |-> <<>>, xerr |-> NoError, http |-> <<>>,
                 req |-> Send(req, in.cmd, in.args).req, world |-> World]
    /\ req' = call'.req
    /\ UNCHANGED <<tok, serverVars>>

\* the outcome of Exec as the fields err, res, dst of a call
ExecReturn(dst, x) == [res |-> <<>>] @@ Exec(dst, x)

\* r.Exec(dst...), with the round trip one of transports
ExecCall(transports) ==
    /\ call.op = "none"
    /\ \E dst \in SeqsUpTo(DstKinds, MaxDst), transport \in transports :
        call' = LET x == exec(req, tok, transport)
                IN  Returned("Exec", [dst |-> dst, transport |-> transport], req,
                             x, ExecReturn(dst, x))
    /\ req' = call'.req
    /\ Answered(call')
    /\ UNCHANGED tok

\* the outcome of ExecOne as the fields err, res, dst of a call
ExecOneReturn(dst, x) == [res |-> <<>>] @@ ExecOne(dst, x)

\* r.ExecOne(dst, cmd, args...), with the round trip one of transports
ExecOneCall(transports) ==
    /\ call.op = "none"
    /\ \E in \in SendInputs, dst \in DstKinds, transport \in transports :
        call' =
            IF Send(req, in.cmd, in.args).err.k # "nil"
            THEN [op |-> "ExecOne",
                  in |-> [cmd |-> in.cmd, args |-> in.args, dst |-> dst,
                          transport |-> transport],
                  before |-> req, transport |-> transport,
                  err |-> Send(req, in.cmd, in.args).err, res |-> <<>>,
                  dst |-> <<Unset>>, batch |-> <<>>, xerr |-> NoError,
                  http |-> <<>>, req |-> req, world |-> World]
            ELSE LET x == exec(Send(req, in.cmd, in.args).req, tok, transport)
                 IN  Returned("ExecOne",
                              [cmd |-> in.cmd, args |-> in.args, dst |-> dst,
                               transport |-> transport],
                              req, x, ExecOneReturn(dst, x))
    /\ req' = call'.req
    /\ Answered(call')
    /\ UNCHANGED tok

\* the outcome of ExecRaw as the fields err, res, dst of a call
ExecRawReturn(x) == [dst |-> <<>>] @@ ExecRaw(x)

\* r.ExecRaw(), with the round trip one of transports
ExecRawCall(transports) ==
    /\ call.op = "none"
    /\ \E transport \in transports :
        call' = LET x == exec(req, tok, transport)
                IN  Returned("ExecRaw", [transport |-> transport], req,
                             x, ExecRawReturn(x))
    /\ req' = call'.req
    /\ Answered(call')
    /\ UNCHANGED tok

\* the caller has looked at what the call returned and goes on
Continue ==
    /\ call.op # "none"
    /\ call' = NoCall
    /\ UNCHANGED <<req, tok, serverVars>>

ClientNext ==
    \/ SendCall
    \/ ExecCall(Transports)
    \/ ExecOneCall(Transports)
    \/ ExecRawCall(Transports)
    \/ Continue

\* the calls on one Request whose HTTPDoer reaches any server
AnyServerNext ==
    \/ SendCall
    \/ ExecCall(AnyTransports)
    \/ ExecOneCall(AnyTransports)
    \/ ExecRawCall(AnyTransports)
    \/ Continue

Init == ClientInit /\ ServerInit

\* the server alone: no Request is in use
ServerOnlyInit ==
    /\ req = <<>>
    /\ tok = AdminToken
    /\ call = NoCall
    /\ ServerInit

Spec == Init /\ [][ClientNext]_vars

AnyServerSpec == Init /\ [][AnyServerNext]_vars

ServerSpec == ServerOnlyInit /\ [][ServerNext]_vars

ConcSpec == ServerOnlyInit /\ [][ConcNext]_vars

(***************************************************************************)
(* The server as the command-line program starts it when no --api-token is *)
(* given: APIToken is the empty string.                                    *)
(***************************************************************************)
OpenServer == [APIToken |-> "", unknown |-> ErrUnknownCommand]

\* the requests of ServerSpec, and ACL RESTTOKEN sent without any token
OpenNext ==
    \/ HandlerNext(OpenServer, 1,
                   Requests \cup {Request("POST", RootPath, <<>>, "",
                                          JSONBody(Arr(CmdToken)), FALSE)},
                   Secrets)
    \/ SetPassword

OpenSpec == ServerOnlyInit /\ [][OpenNext]_vars

(***************************************************************************)
(* The server in front of any implementation of Conn: one whose reply to   *)
(* ACL GENPASS need not be a string, and which has a user with an empty    *)
(* name and an empty password.                                             *)
(***************************************************************************)
\* what conn.Do("ACL", "GENPASS") may return: a string, or an integer
Replies == Secrets \cup {Num(1)}

\* the requests of ServerSpec, ACL RESTTOKEN for the empty credential, and
\* a pipeline of two issuances
AnyStoreRequests ==
    Requests \cup
        {Request("POST", RootPath, <<>>, Bearer(AdminToken),
                 JSONBody(Arr(<<Str("ACL"), Str("RESTTOKEN"), Str(""), Str("")>>)),
                 FALSE)}

\* the store also has the user with the empty name and password
AnyStoreInit ==
    /\ req = <<>>
    /\ tok = AdminToken
    /\ call = NoCall
    /\ restTokens = [k \in {} |-> NoAuth]
    /\ users = {User("user", "pwd", {"user:"}), User("", "", {""})}
    /\ db = [k \in {} |-> Null]
    /\ mu = Unlocked
    /\ handlers = [h \in Handlers |-> IdleHandler]
    /\ inserted = [k \in {} |-> NoAuth]

AnyStoreNext == HandlerNext(TheServer, 1, AnyStoreRequests, Replies) \/ SetPassword

AnyStoreSpec == AnyStoreInit /\ [][AnyStoreNext]_vars

(***************************************************************************)
(* Properties of the REST server, checked under ServerSpec.                *)
(***************************************************************************)
\* ServeHTTP has returned for the served request
Replied == served.pc = "done"

\* the identity the served request was authenticated as when it arrived
Identity ==
    IF requestToken(served.r) \in DOMAIN served.before
          /\ requestToken(served.r) # AdminToken
    THEN served.before[requestToken(served.r)]
    ELSE NoAuth

\* the AUTH the served request's identity puts first on its connection
AuthPrefix ==
    IF Identity = NoAuth THEN <<>>
    ELSE <<<<"AUTH", Identity.Username, Identity.Password>>>>

\* the served request reached the /pipeline branch of the dispatcher
PipelineServed ==
    /\ Replied
    /\ served.step = "dispatch"
    /\ TrimSuffixSlash(served.r.path) = PipelinePath

\* the inner commands of the served pipeline body
ServedCmds == UnmarshalPipeline(served.r.body).cmds

\* the response entry for what the connection replied to a command
EntryOf(rep) ==
    IF rep.err # "" THEN Obj([error |-> Str(rep.err)]) ELSE Obj([result |-> rep.reply])

\* the words of a command as the connection logs them
Words(c) == [i \in 1..Len(c) |-> Sprint(c[i])]

\* c is ACL RESTTOKEN, with any number of further arguments
IsRestToken(c) ==
    Len(c) >= 2 /\ ToLower(Sprint(c[1])) = "acl" /\ ToLower(Sprint(c[2])) = "resttoken"

\* position i of the connection's log holds the command words
SentAt(conn, i, words) == i <= Len(conn.log) /\ conn.log[i] = words

\* the inner command c put n commands on the connection from position i of
\* its log on, and e is the entry of its outcome: an empty command and an
\* ACL RESTTOKEN of the wrong arity send nothing, ACL RESTTOKEN sends AUTH
\* and, when that succeeded, ACL GENPASS, any other command is sent as it is
Outcome(conn, c, e, i, n) ==
    IF Len(c) = 0
    THEN n = 0 /\ e = Obj([error |-> Str("ERR empty pipeline command")])
    ELSE IF IsRestToken(c) /\ Len(c) # 4
    THEN n = 0 /\ e = Obj([error |-> Str(ErrInvalidSyntax)])
    ELSE IF IsRestToken(c)
    THEN /\ SentAt(conn, i, <<"AUTH", Sprint(c[3]), Sprint(c[4])>>)
         /\ IF conn.replies[i].err # ""
            THEN n = 1 /\ e = EntryOf(conn.replies[i])
            ELSE /\ n = 2
                 /\ SentAt(conn, i + 1, <<"ACL", "GENPASS">>)
                 /\ e = EntryOf(conn.replies[i + 1])
    ELSE /\ n = 1
         /\ SentAt(conn, i, Words(c))
         /\ e = EntryOf(conn.replies[i])

\* the inner commands cmds were executed in order, once each, from position
\* i of the connection's log to its end, and entries are their outcomes
RECURSIVE InOrder(_, _, _, _)
InOrder(conn, cmds, entries, i) ==
    IF cmds = <<>> THEN entries = <<>> /\ i = Len(conn.log) + 1
    ELSE /\ entries # <<>>
         /\ \E n \in 0..2 :
                /\ Outcome(conn, Head(cmds), Head(entries), i, n)
                /\ InOrder(conn, Tail(cmds), Tail(entries), i + n)

\* C1: a /pipeline request whose body decodes to N >= 1 inner arrays gets a
\* response array of exactly N entries, entry i being the outcome of inner
\* command i, and the connection has seen the non-empty inner commands once
\* each in array order, whatever failed or was empty before them.
C1_PipelineInOrder ==
    (PipelineServed /\ UnmarshalPipeline(served.r.body).ok /\ Len(ServedCmds) >= 1)
    => /\ served.resp.body.k = "json"
       /\ served.resp.body.doc.t = "array"
       /\ Len(served.resp.body.doc.a) = Len(ServedCmds)
       /\ SubSeq(served.conn.log, 1, Len(AuthPrefix)) = AuthPrefix
       /\ InOrder(served.conn, ServedCmds, served.resp.body.doc.a, Len(AuthPrefix) + 1)

\* a pipeline of three inner commands whose second failed at the store, and
\* whose third was executed and read what the first had written
C1_Witness ==
    /\ PipelineServed
    /\ UnmarshalPipeline(served.r.body).ok
    /\ ServedCmds = <<CmdSet, CmdHGetAll, CmdGet>>
    /\ Len(served.resp.body.doc.a) = 3
    /\ served.resp.body.doc.a[1] = Obj([result |-> Str("OK")])
    /\ served.resp.body.doc.a[2] = Obj([error |-> Str(ErrWrongType)])
    /\ served.resp.body.doc.a[3] = Obj([result |-> Str("1")])
    /\ served.conn.log = <<<<"SET", "a", "1">>, <<"HGETALL", "a">>, <<"GET", "a">>>>

\* the body is a JSON array of arrays with at least one element
IsArrayOfArrays(body) ==
    /\ body.k = "json"
    /\ body.doc.t = "array"
    /\ Len(body.doc.a) >= 1
    /\ \A i \in 1..Len(body.doc.a) : body.doc.a[i].t = "array"

\* the body is not JSON, or is JSON that is no array of arrays or nulls
IsUnparsablePipeline(body) ==
    \/ body.k # "json"
    \/ body.doc.t \notin {"array", "null"}
    \/ /\ body.doc.t = "array"
       /\ \E i \in 1..Len(body.doc.a) : body.doc.a[i].t \notin {"array", "null"}

ErrorBody(msg) == JSONBody(Obj([error |-> Str(msg)]))

\* C2: a /pipeline request is answered 200 whenever its body is a non-empty
\* array of arrays, whatever the inner commands did; the only other answers
\* are 400 "ERR failed to parse pipeline request" (unparsable body) and 400
\* "ERR empty pipeline request" (empty array), with no inner command executed.
C2_PipelineStatus ==
    PipelineServed
    => /\ IsArrayOfArrays(served.r.body) => served.resp.status = StatusOK
       /\ IsUnparsablePipeline(served.r.body)
            => /\ served.resp.status = StatusBadRequest
               /\ served.resp.body = ErrorBody("ERR failed to parse pipeline request")
       /\ served.r.body = JSONBody(Arr(<<>>))
            => /\ served.resp.status = StatusBadRequest
               /\ served.resp.body = ErrorBody("ERR empty pipeline request")
       /\ served.resp.status # StatusOK
            => /\ served.resp.status = StatusBadRequest
               /\ served.resp.body \in
                    {ErrorBody("ERR failed to parse pipeline request"),
                     ErrorBody("ERR empty pipeline request")}
               /\ served.conn.log = AuthPrefix

\* a pipeline of two inner commands that both failed, answered 200
C2_Witness ==
    /\ PipelineServed
    /\ IsArrayOfArrays(served.r.body)
    /\ Len(served.r.body.doc.a) = 2
    /\ served.resp.status = StatusOK
    /\ \A i \in 1..2 : "error" \in DOMAIN served.resp.body.doc.a[i].o
    /\ Len(served.conn.log) = 2

(***************************************************************************)
(* Properties of the REST server's authentication, checked under           *)
(* ServerSpec.                                                             *)
(***************************************************************************)
\* the token the served request carries
ServedToken == requestToken(served.r)

\* the served request carries a token of the token store
TokenIdentity ==
    /\ Replied
    /\ ServedToken # AdminToken
    /\ ServedToken \in DOMAIN served.before

\* the credential the token store holds for the served request's token
StoredAuth == served.before[ServedToken]

Unauthorized == [status |-> StatusUnauthorized, body |-> ErrorBody("Unauthorized")]

\* C17: a request whose token is neither the admin token nor a key of the
\* token store is answered 401 {"error":"Unauthorized"}, whatever its path
\* and method and whether the token is missing, malformed or unknown; it
\* gets no connection and leaves the token store as it was.
C17_Unauthorized ==
    (/\ Replied
     /\ ServedToken # AdminToken
     /\ ServedToken \notin DOMAIN served.before)
    => /\ served.resp = Unauthorized
       /\ ~served.acquired
       /\ served.conn.log = <<>>
       /\ restTokens = served.before

\* a PUT request with an Authorization header that is no bearer token,
\* answered like any unauthenticated request
C17_Witness ==
    /\ Replied
    /\ served.r.method = "PUT"
    /\ served.r.authorization = "Basic dXNlcjpwd2Q="
    /\ served.resp.status = StatusUnauthorized
    /\ served.resp.body = JSONBody(Obj([error |-> Str("Unauthorized")]))

ValidationErrors ==
    {"ERR failed to parse command", "ERR empty command",
     "ERR failed to parse pipeline request", "ERR empty pipeline request",
     ErrInvalidSyntax}

\* the served request ended with a validation or an authorization error
EndsLocally ==
    /\ Replied
    /\ \/ served.resp = Unauthorized
       \/ /\ served.resp.status = StatusBadRequest
          /\ served.resp.body \in {ErrorBody(m) : m \in ValidationErrors}

\* C18: a request that ends with a validation or an authorization error has
\* issued no command at all on a backing connection, whichever identity it
\* carries.
C18_NoCommandAtAll == EndsLocally => served.conn.log = <<>>

\* C18 (amended): a request that ends with a validation or an authorization
\* error has issued none of the caller's commands: nothing at all under the
\* admin token or without a valid token, and under a token of the token
\* store only the AUTH with the stored credential, which comes before the
\* validation.
C18_NoCallerCommand ==
    EndsLocally
    => /\ TokenIdentity
            => served.conn.log = <<<<"AUTH", StoredAuth.Username, StoredAuth.Password>>>>
       /\ ~TokenIdentity => served.conn.log = <<>>

\* an empty pipeline sent with a token of the token store: only AUTH reached
\* the backing store
C18_Witness ==
    /\ TokenIdentity
    /\ served.resp.status = StatusBadRequest
    /\ served.resp.body = ErrorBody("ERR empty pipeline request")
    /\ Len(served.conn.log) = 1
    /\ served.conn.log[1][1] = "AUTH"

\* C19: for a request under a token of the token store that gets a
\* connection, the first command on the connection is AUTH with the stored
\* username and password; if the store rejects it the response is that
\* failure with status 400, nothing else was issued and no token was stored.
C19_AuthFirst ==
    TokenIdentity
    => /\ ~served.acquired => served.conn.log = <<>>
       /\ served.acquired
            => /\ Len(served.conn.log) >= 1
               /\ served.conn.log[1] = <<"AUTH", StoredAuth.Username, StoredAuth.Password>>
       /\ (served.acquired /\ served.conn.replies[1].err # "")
            => /\ Len(served.conn.log) = 1
               /\ served.resp.status = StatusBadRequest
               /\ served.resp.body = ErrorBody(served.conn.replies[1].err)
               /\ restTokens = served.before

\* a pipeline of commands sent with a token whose password was changed since
\* it was issued: only the failed AUTH reached the backing store
C19_Witness ==
    /\ TokenIdentity
    /\ TrimSuffixSlash(served.r.path) = PipelinePath
    /\ UnmarshalPipeline(served.r.body).ok
    /\ Len(UnmarshalPipeline(served.r.body).cmds) = 2
    /\ Len(UnmarshalPipeline(served.r.body).cmds[1]) > 0
    /\ served.conn.log = <<<<"AUTH", StoredAuth.Username, StoredAuth.Password>>>>
    /\ served.conn.replies[1].err = ErrWrongPass
    /\ served.resp.status = StatusBadRequest
    /\ served.resp.body = ErrorBody(ErrWrongPass)

\* the commands of the served request, in order
ServedCommands ==
    IF TrimSuffixSlash(served.r.path) = RootPath
    THEN IF Len(UnmarshalCommand(served.r.body).args) = 0 THEN <<>>
         ELSE <<UnmarshalCommand(served.r.body).args>>
    ELSE IF TrimSuffixSlash(served.r.path) = PipelinePath
    THEN UnmarshalPipeline(served.r.body).cmds
    ELSE <<[i \in 1..Len(segmentsOf(served.r)) |-> Str(segmentsOf(served.r)[i])]>>

\* the entries of the served response, one per command
ServedEntries ==
    IF served.resp.body.doc.t = "array" THEN served.resp.body.doc.a
    ELSE <<served.resp.body.doc>>

\* c is ACL RESTTOKEN user pwd
IsTokenCmd(c) ==
    /\ Len(c) = 4
    /\ ToLower(Sprint(c[1])) = "acl"
    /\ ToLower(Sprint(c[2])) = "resttoken"

\* the replies the served request's connection gave to ACL GENPASS
Generated ==
    {served.conn.replies[j].reply :
        j \in {k \in 1..Len(served.conn.log) :
                  /\ served.conn.log[k] = <<"ACL", "GENPASS">>
                  /\ served.conn.replies[k].err = ""}}

\* command i of the served request is an ACL RESTTOKEN user pwd that succeeded
IssuedAt(i) ==
    /\ i <= Len(ServedEntries)
    /\ IsTokenCmd(ServedCommands[i])
    /\ ServedEntries[i].t = "object"
    /\ "result" \in DOMAIN ServedEntries[i].o

\* a successful ACL RESTTOKEN user pwd returned a secret the backing store
\* generated and the token store maps the secret to (user, pwd), unless a
\* later issuance of the same request was given the same secret
IssuedRecorded ==
    (/\ Replied
     /\ served.step = "dispatch"
     /\ served.resp.body.k = "json")
    => \A i \in 1..Len(ServedCommands) :
        IssuedAt(i)
        => /\ ServedEntries[i].o.result \in Generated
           /\ ServedEntries[i].o.result.s \in DOMAIN restTokens
           /\ \/ restTokens[ServedEntries[i].o.result.s] =
                    [Username |-> Sprint(ServedCommands[i][3]),
                     Password |-> Sprint(ServedCommands[i][4])]
              \/ \E j \in (i + 1)..Len(ServedCommands) :
                    /\ IssuedAt(j)
                    /\ ServedEntries[j].o.result = ServedEntries[i].o.result

\* a token of the token store stays in it, and its credential changes only
\* when a request stores the same secret, given by the backing store again
StoredStays ==
    \A k \in DOMAIN restTokens :
        /\ k \in DOMAIN restTokens'
        /\ restTokens'[k] # restTokens[k]
            => /\ served.pc = "issueStore"
               /\ served.token = Str(k)

\* a request carrying a token of the token store is not answered 401 and its
\* connection is authenticated with the credential stored for the token
BearerAccepted ==
    TokenIdentity
    => /\ served.resp.status # StatusUnauthorized
       /\ served.acquired
            => /\ served.conn.log # <<>>
               /\ served.conn.log[1] = <<"AUTH", StoredAuth.Username, StoredAuth.Password>>

\* C20: a successful ACL RESTTOKEN user pwd returns the secret generated by
\* the backing store and records secret -> (user, pwd) in the token store;
\* from then on the secret stays in the token store, with that credential
\* unless the backing store generates the same secret again, and every
\* request carrying it is authenticated with the stored credential, never
\* answered 401.
C20_TokenLifetime == [][IssuedRecorded' /\ StoredStays /\ BearerAccepted']_vars

\* a request carrying an issued secret ran its command on a connection
\* authenticated as the user the secret was issued to
C20_Witness ==
    /\ TokenIdentity
    /\ StoredAuth = [Username |-> "user", Password |-> "pwd"]
    /\ served.resp.status = StatusOK
    /\ Len(served.conn.log) = 2
    /\ served.conn.log[1] = <<"AUTH", "user", "pwd">>
    /\ served.conn.log[2] = <<"echo", "a">>
    /\ served.conn.user = [Username |-> "user", Password |-> "pwd"]

(***************************************************************************)
(* Properties of ACL RESTTOKEN and of the token store, checked under       *)
(* ServerSpec.                                                             *)
(***************************************************************************)
\* the served request reached the switch on the path and got a JSON answer
Dispatched ==
    /\ Replied
    /\ served.step = "dispatch"
    /\ served.resp.body.k = "json"

\* the served request is a single command, in the body or in the path
SingleForm == TrimSuffixSlash(served.r.path) # PipelinePath

\* entry e of a response is an error envelope
IsError(e) == e.t = "object" /\ "error" \in DOMAIN e.o

\* C21: ACL RESTTOKEN followed by a number of arguments other than two is
\* answered with an error starting "ERR invalid syntax" (status 400 for a
\* single command); a request made of such commands only issues neither AUTH
\* for a named credential nor ACL GENPASS (the connection has seen nothing
\* but the AUTH of the request's own identity) and leaves the token store
\* as it was.
C21_WrongArity ==
    Dispatched
    => /\ \A i \in 1..Len(ServedCommands) :
            (IsRestToken(ServedCommands[i]) /\ Len(ServedCommands[i]) # 4)
            => /\ i <= Len(ServedEntries)
               /\ IsError(ServedEntries[i])
               /\ HasPrefix(ServedEntries[i].o.error.s, "ERR invalid syntax")
               /\ SingleForm => served.resp.status = StatusBadRequest
       /\ (/\ Len(ServedCommands) >= 1
           /\ \A i \in 1..Len(ServedCommands) :
                IsRestToken(ServedCommands[i]) /\ Len(ServedCommands[i]) # 4)
            => /\ served.conn.log = AuthPrefix
               /\ restTokens = served.before

\* ACL RESTTOKEN user pwd followed by one more argument, in a request under
\* the admin token, was rejected
C21_Witness ==
    /\ Dispatched
    /\ SingleForm
    /\ Len(ServedCommands) = 1
    /\ IsRestToken(ServedCommands[1])
    /\ Len(ServedCommands[1]) = 5
    /\ served.resp.status = StatusBadRequest
    /\ served.conn.log = <<>>
    /\ restTokens = served.before

\* position j of the served connection's log is an AUTH of ACL RESTTOKEN
\* that the backing store rejected
RejectedAt(j) ==
    /\ j > Len(AuthPrefix)
    /\ j <= Len(served.conn.log)
    /\ served.conn.log[j][1] = "AUTH"
    /\ served.conn.replies[j].err # ""

\* C22: when the AUTH of ACL RESTTOKEN user pwd fails, the outcome of the
\* command is the error of that AUTH (status 400 for a single command) and
\* no ACL GENPASS follows it; a request none of whose AUTHs succeeded has
\* issued no ACL GENPASS and leaves the token store as it was.
C22_AuthFailure ==
    Dispatched
    => /\ \A j \in 1..Len(served.conn.log) :
            RejectedAt(j)
            => /\ j < Len(served.conn.log)
                    => served.conn.log[j + 1] # <<"ACL", "GENPASS">>
               /\ \E i \in 1..Len(ServedEntries) :
                    /\ IsTokenCmd(ServedCommands[i])
                    /\ ServedEntries[i] = EntryOf(served.conn.replies[j])
               /\ SingleForm
                    => /\ served.resp.status = StatusBadRequest
                       /\ j = Len(served.conn.log)
       /\ (\A j \in (Len(AuthPrefix) + 1)..Len(served.conn.log) : RejectedAt(j))
            => /\ \A j \in 1..Len(served.conn.log) :
                    served.conn.log[j] # <<"ACL", "GENPASS">>
               /\ restTokens = served.before

\* ACL RESTTOKEN user bad under the admin token: the AUTH was issued and
\* rejected, and nothing followed it
C22_Witness ==
    /\ Dispatched
    /\ SingleForm
    /\ Len(ServedCommands) = 1
    /\ IsTokenCmd(ServedCommands[1])
    /\ ServedToken = AdminToken
    /\ served.resp.status = StatusBadRequest
    /\ served.resp.body = ErrorBody(ErrWrongPass)
    /\ served.conn.log = <<<<"AUTH", "user", "bad">>>>
    /\ served.conn.replies[1].err = ErrWrongPass

\* the served request holds an ACL RESTTOKEN user pwd that succeeded
IssuanceSucceeded ==
    /\ Dispatched
    /\ \E i \in 1..Len(ServedCommands) :
        /\ i <= Len(ServedEntries)
        /\ IsTokenCmd(ServedCommands[i])
        /\ ServedEntries[i].t = "object"
        /\ "result" \in DOMAIN ServedEntries[i].o

\* the served connection has just been given the secret s for the
\* credential a: its last commands are the AUTH of a, accepted, and ACL
\* GENPASS, answered s
JustGenerated(s, a) ==
    LET n == Len(served.conn.log)
    IN  /\ n >= 2
        /\ served.conn.log[n - 1] = <<"AUTH", a.Username, a.Password>>
        /\ served.conn.replies[n - 1].err = ""
        /\ served.conn.log[n] = <<"ACL", "GENPASS">>
        /\ served.conn.replies[n] = [reply |-> Str(s), err |-> ""]

\* C24: the token store is empty when the server starts; in every step its
\* keys are kept, and it changes only in a successful ACL RESTTOKEN, by the
\* entry of the secret just generated for the credential just accepted; a
\* request that holds no successful ACL RESTTOKEN leaves it as it was.
C24_TokenStoreGrowsOnly ==
    /\ DOMAIN restTokens = {}
    /\ [][/\ DOMAIN restTokens \subseteq DOMAIN restTokens'
          /\ restTokens' # restTokens
                => \E s \in DOMAIN restTokens' :
                    /\ JustGenerated(s, restTokens'[s])
                    /\ restTokens' = Put(restTokens, s, restTokens'[s])
          /\ (Replied' /\ ~IssuanceSucceeded')
                => restTokens' = served'.before]_vars

\* the token store holds two secrets and the request just handled, which
\* issued none, left it as it was
C24_Witness ==
    /\ Replied
    /\ Cardinality(DOMAIN restTokens) = 2
    /\ ~IssuanceSucceeded
    /\ restTokens = served.before
    /\ restTokens = served.before

(***************************************************************************)
(* Properties of the dispatcher, checked under ServerSpec.                 *)
(***************************************************************************)
\* entry e of the connection's log was issued for a command of the served
\* request
OwnCommand(e) ==
    \E i \in 1..Len(ServedCommands) :
        /\ Len(ServedCommands[i]) >= 1
        /\ \/ e[1] = Sprint(ServedCommands[i][1])
           \/ /\ IsTokenCmd(ServedCommands[i])
              /\ e \in {<<"AUTH", Sprint(ServedCommands[i][3]),
                          Sprint(ServedCommands[i][4])>>,
                        <<"ACL", "GENPASS">>}

\* C25: the connection acquired for a request is closed exactly once when
\* the request is done, whatever its outcome; a request that acquired none
\* closed none; and the connection has carried nothing but the AUTH of the
\* request's identity and commands of that request.
C25_ConnClosedOnce ==
    Replied
    => /\ served.acquired => served.conn.closed = 1
       /\ ~served.acquired => (served.conn.closed = 0 /\ served.conn.log = <<>>)
       /\ served.acquired <=> served.step \in {"connAuth", "dispatch"}
       /\ served.acquired
            => /\ HasPrefix(served.conn.log, AuthPrefix)
               /\ \A j \in (Len(AuthPrefix) + 1)..Len(served.conn.log) :
                    OwnCommand(served.conn.log[j])

\* a request cut short by the failure of its connection's AUTH: the
\* connection was closed once
C25_Witness ==
    /\ Replied
    /\ served.step = "connAuth"
    /\ served.acquired
    /\ served.resp.status = StatusBadRequest
    /\ served.conn.closed = 1
    /\ Len(served.conn.log) = 1

\* the served request carries the admin token or a token of the token store
KnownToken == ServedToken = AdminToken \/ ServedToken \in DOMAIN served.before

\* C26: ServeHTTP authenticates, then checks the method, then reads the
\* body, then acquires a connection, and stops at the first step that
\* fails: 401 for an unknown token whatever the method, 405 with an empty
\* body for a known token and a method other than GET and POST, 500 when
\* the body cannot be read, and no connection for any of the three.
C26_StepOrder ==
    Replied
    => /\ ~KnownToken => served.resp.status = StatusUnauthorized
       /\ (KnownToken /\ served.r.method \notin {"GET", "POST"})
            => served.resp = [status |-> StatusMethodNotAllowed, body |-> EmptyBody]
       /\ (KnownToken /\ served.r.method \in {"GET", "POST"} /\ served.r.readErr)
            => served.resp.status = StatusInternalServerError
       /\ (KnownToken /\ served.r.method \in {"GET", "POST"} /\ ~served.r.readErr)
            => served.acquired
       /\ served.resp.status \in
            {StatusUnauthorized, StatusMethodNotAllowed, StatusInternalServerError}
            => /\ ~served.acquired
               /\ served.conn.log = <<>>
               /\ served.conn.closed = 0

\* a PUT request with a known token whose body cannot be read: answered 405,
\* the body was never read
C26_Witness ==
    /\ Replied
    /\ KnownToken
    /\ served.r.method = "PUT"
    /\ served.r.readErr
    /\ served.resp.status = StatusMethodNotAllowed
    /\ served.resp.body = EmptyBody
    /\ ~served.acquired

\* the served request reached the root branch of the switch
RootServed ==
    /\ Replied
    /\ served.step = "dispatch"
    /\ TrimSuffixSlash(served.r.path) = RootPath

\* the log entry of command name with arguments args
LogEntry(name, args) == <<name>> \o [i \in 1..Len(args) |-> Sprint(args[i])]

\* the response that carries the outcome d of the backing store
StoreResponse(d) ==
    IF d.err # "" THEN [status |-> StatusBadRequest, body |-> ErrorBody(d.err)]
    ELSE [status |-> StatusOK, body |-> JSONBody(Obj([result |-> d.reply]))]

\* C27: on the root path, an absent body or one that is no JSON array is
\* answered 400 "ERR failed to parse command" and an empty array 400 "ERR
\* empty command" (the JSON null, which decodes to no element, as well);
\* otherwise the first element as text is the command and the others its
\* arguments in order: it is issued once on the connection and the answer
\* is 400 with the backing store's error or 200 with its result.
C27_RootCommand ==
    RootServed
    => /\ (served.r.body.k # "json" \/ served.r.body.doc.t \notin {"array", "null"})
            => served.resp = [status |-> StatusBadRequest,
                              body |-> ErrorBody("ERR failed to parse command")]
       /\ (served.r.body \in {JSONBody(Arr(<<>>)), JSONBody(Null)})
            => served.resp = [status |-> StatusBadRequest,
                              body |-> ErrorBody("ERR empty command")]
       /\ (/\ served.r.body.k = "json"
           /\ served.r.body.doc.t = "array"
           /\ Len(served.r.body.doc.a) >= 1
           /\ ~IsRestToken(served.r.body.doc.a))
            => /\ served.conn.log =
                    AuthPrefix \o
                    <<LogEntry(Sprint(served.r.body.doc.a[1]),
                               Tail(served.r.body.doc.a))>>
               /\ served.resp = StoreResponse(served.conn.replies[Len(served.conn.log)])

\* SET a 1 in the body of a root request: forwarded with its arguments in
\* order and answered 200 OK
C27_Witness ==
    /\ RootServed
    /\ served.r.body = JSONBody(Arr(<<Str("SET"), Str("a"), Num(1)>>))
    /\ ServedToken = AdminToken
    /\ served.conn.log = <<<<"SET", "a", "1">>>>
    /\ served.resp = [status |-> StatusOK, body |-> JSONBody(Obj([result |-> Str("OK")]))]

\* the served request reached the default branch of the switch
PathServed ==
    /\ Replied
    /\ served.step = "dispatch"
    /\ TrimSuffixSlash(served.r.path) \notin {RootPath, PipelinePath}

\* key then value of each query pair in order, the key alone without "="
RECURSIVE QueryArgs(_)
QueryArgs(q) == IF q = <<>> THEN <<>> ELSE Head(q) \o QueryArgs(Tail(q))

\* the texts of segs as JSON strings
AsValues(segs) == [i \in 1..Len(segs) |-> Str(segs[i])]

\* path segments, then the raw body if there is one, then the query pairs
ExpectedSegments(r) ==
    SubSeq(r.path, 2, Len(r.path))
        \o (IF Raw(r.body) # "" THEN <<Raw(r.body)>> ELSE <<>>)
        \o QueryArgs(r.query)

\* C28: for a path other than the root and /pipeline, the command issued on
\* the connection is the path segments, then the raw body as one argument
\* when there is a body, then key and value of each query pair in order:
\* the first element is the command, the others its arguments; the answer
\* carries the backing store's outcome.
C28_PathCommand ==
    (PathServed /\ ~IsRestToken(AsValues(ExpectedSegments(served.r))))
    => /\ served.conn.log = AuthPrefix \o <<ExpectedSegments(served.r)>>
       /\ served.resp = StoreResponse(served.conn.replies[Len(served.conn.log)])

\* /set/a?EX=10 with the body "1": forwarded as set a 1 EX 10
C28_Witness ==
    /\ PathServed
    /\ served.r.path = <<"", "set", "a">>
    /\ served.r.body = TextBody("1")
    /\ served.r.query = <<<<"EX", "10">>>>
    /\ served.conn.log = <<<<"set", "a", "1", "EX", "10">>>>
    /\ served.resp.status = StatusOK
    /\ db["a"] = StringValue("1", "10")

\* the request r handled by the server alone in the present world, ACL
\* GENPASS answered with gen: the handler at its return and the world it
\* leaves
Lone(r, gen) == run(TheServer, ServeHTTP(TheServer, r, restTokens), World, <<gen>>)

\* the request r arrives at the server in this step
Arrives(r) == served.pc = "idle" /\ served'.pc # "idle" /\ served'.r = r

\* the outcome o of one request and the outcome p of another are the same:
\* response, commands on the connection with their replies, token store and
\* backing store
SameOutcome(o, p) ==
    /\ o.hd.resp = p.hd.resp
    /\ o.hd.conn = p.hd.conn
    /\ o.w = p.w

\* r is a command given by its path alone, without a trailing slash
PlainPath(r) ==
    /\ r.method \in {"GET", "POST"}
    /\ ~r.readErr
    /\ TrimSuffixSlash(r.path) \notin {RootPath, PipelinePath}
    /\ r.path[Len(r.path)] # ""
    /\ r.body = EmptyBody
    /\ r.query = <<>>

\* the request r with its command moved to the body of a root request
BodyTwin(r) ==
    Request("POST", <<"", "">>, <<>>, r.authorization,
            JSONBody(Arr([i \in 1..(Len(r.path) - 1) |-> Str(r.path[i + 1])])),
            FALSE)

\* C29: a request /C/a1/a2 arriving at the server issues the same commands
\* on the connection, gets the same status and body and leaves the same
\* token store and backing store as the root request with body
\* ["C", a1, a2] and the same token would, arriving in its place.
C29_PathEqualsBody ==
    [][\A r \in Requests :
         (Arrives(r) /\ PlainPath(r))
         => \A gen \in Secrets : SameOutcome(Lone(r, gen), Lone(BodyTwin(r), gen))]_vars

\* /set/a/1 answered 200 like the root request with body ["set","a","1"]
C29_Witness ==
    /\ Replied
    /\ PlainPath(served.r)
    /\ served.r.path = <<"", "set", "a", "1">>
    /\ served.resp.status = StatusOK
    /\ served.conn.log = <<<<"set", "a", "1">>>>
    /\ Lone(BodyTwin(served.r), Str("secret1")).hd.resp = served.resp
    /\ Lone(BodyTwin(served.r), Str("secret1")).hd.conn.log = served.conn.log

\* r has a path that ends with a slash
EndsWithSlash(r) ==
    /\ r.method \in {"GET", "POST"}
    /\ ~r.readErr
    /\ Len(r.path) >= 2
    /\ r.path[Len(r.path)] = ""

\* the request r with the trailing slash of its path removed
SlashlessTwin(r) == [r EXCEPT !.path = TrimSuffixSlash(r.path)]

\* C30: a request whose path ends with a slash is answered like the request
\* to the same path without the slash and issues the same commands on the
\* connection, on the root, on /pipeline and on command paths.
C30_TrailingSlashIgnored ==
    [][\A r \in Requests :
         (Arrives(r) /\ EndsWithSlash(r))
         => \A gen \in Secrets :
                /\ Lone(r, gen).hd.resp = Lone(SlashlessTwin(r), gen).hd.resp
                /\ Lone(r, gen).hd.conn.log = Lone(SlashlessTwin(r), gen).hd.conn.log]_vars
(***************************************************************************)
(* Properties of the bearer token of a request, checked under ServerSpec.  *)
(***************************************************************************)
\* the pairs of query q other than the _token pairs
RECURSIVE WithoutToken(_)
WithoutToken(q) ==
    IF q = <<>> THEN <<>>
    ELSE IF Head(q)[1] = "_token" THEN WithoutToken(Tail(q))
    ELSE <<Head(q)>> \o WithoutToken(Tail(q))

\* query q holds a _token pair
HasTokenPair(q) == \E i \in 1..Len(q) : q[i][1] = "_token"

\* the value of the first _token pair of query q, "" for a pair without "="
FirstTokenValue(q) ==
    LET i == CHOOSE j \in 1..Len(q) :
                 q[j][1] = "_token" /\ \A k \in 1..(j - 1) : q[k][1] # "_token"
    IN  IF Len(q[i]) = 2 THEN q[i][2] ELSE ""

\* r is a path-encoded request with a token in its _token query parameter
TokenInQuery(r) ==
    /\ r.method \in {"GET", "POST"}
    /\ ~r.readErr
    /\ TrimSuffixSlash(r.path) \notin {RootPath, PipelinePath}
    /\ HasTokenPair(r.query)
    /\ FirstTokenValue(r.query) # ""

\* the request r with its token moved from the query string to the
\* Authorization header
HeaderTwin(r) ==
    [r EXCEPT !.query = WithoutToken(r.query),
              !.authorization = Bearer(requestToken(r))]

\* C31: a path-encoded request that carries its valid token in the _token
\* query parameter issues the same commands on the connection and gets the
\* same status and body as the same request with the token in the
\* Authorization header.
C31_TokenPlacementIrrelevant ==
    [][\A r \in Requests :
         (Arrives(r) /\ TokenInQuery(r))
         => \A gen \in Secrets :
                /\ Lone(r, gen).hd.resp = Lone(HeaderTwin(r), gen).hd.resp
                /\ Lone(r, gen).hd.conn.log = Lone(HeaderTwin(r), gen).hd.conn.log]_vars

\* the Authorization header h without its "Bearer " prefix
HeaderToken(h) ==
    IF Len(h) >= 7 /\ SubSeq(h, 1, 7) = "Bearer " THEN SubSeq(h, 8, Len(h)) ELSE h

\* token k is the admin token or a key of the token store
Accepted(k) == k = AdminToken \/ k \in DOMAIN served.before

\* C32 as stated: a request is authenticated exactly when the value of its
\* _token query parameter, if the parameter is present, and otherwise its
\* Authorization header without the "Bearer " prefix, is an accepted token.
C32_QueryTokenWhenPresent ==
    Replied
    => (served.resp.status # StatusUnauthorized
        <=> Accepted(IF HasTokenPair(served.r.query)
                     THEN FirstTokenValue(served.r.query)
                     ELSE HeaderToken(served.r.authorization)))

\* C32: a request is authenticated exactly when the value of its _token
\* query parameter, if that value is not empty, and otherwise (no _token
\* parameter, or one with an empty value) its Authorization header without
\* the "Bearer " prefix, is an accepted token; the header is not consulted
\* when _token has a non-empty value.
C32_QueryTokenWhenNonEmpty ==
    Replied
    => (served.resp.status # StatusUnauthorized
        <=> Accepted(IF /\ HasTokenPair(served.r.query)
                        /\ FirstTokenValue(served.r.query) # ""
                     THEN FirstTokenValue(served.r.query)
                     ELSE HeaderToken(served.r.authorization)))

\* a request with the admin token in _token and a token nobody issued in
\* the Authorization header: it is authenticated
C32_Witness ==
    /\ Replied
    /\ HasTokenPair(served.r.query)
    /\ FirstTokenValue(served.r.query) = AdminToken
    /\ served.r.authorization # ""
    /\ ~Accepted(HeaderToken(served.r.authorization))
    /\ served.resp.status # StatusUnauthorized

(***************************************************************************)
(* Properties of concurrent requests, checked under ConcSpec.              *)
(***************************************************************************)
\* the handler is about to read or write Server.restTokens
AccessPcs == {"authRead", "issueCheck", "issueMake", "issueStore"}

\* the handler is between s.mu.Lock() and the return of s.mu.Unlock()
CriticalPcs == AccessPcs \cup {"authUnlock", "issueUnlock"}

\* the handler waits for the reply to a command sent on its connection
FlightPcs == {"connAuth", "command", "tokenAuth", "genpass"}

\* C23: with requests handled concurrently, a handler reads or writes the
\* token map only while it holds the server's mutex; at most one handler is
\* between Lock and Unlock at a time; the holder of the mutex has no
\* command in flight on its connection; and every token a handler has
\* inserted is still in the map with the pair it was inserted with.
C23_TokenStoreSerialized ==
    /\ \A h \in Handlers : handlers[h].pc \in CriticalPcs <=> mu = h
    /\ Cardinality({h \in Handlers : handlers[h].pc \in CriticalPcs}) <= 1
    /\ \A h \in Handlers : mu = h => handlers[h].pc \notin FlightPcs
    /\ \A k \in DOMAIN inserted :
        k \in DOMAIN restTokens /\ restTokens[k] = inserted[k]

\* two issuances at once: one handler has stored its token and still holds
\* the mutex, another one waits for the mutex with a different token, and a
\* token inserted before is still there
C23_Witness ==
    \E h1, h2 \in Handlers :
        /\ h1 # h2
        /\ mu = h1
        /\ handlers[h1].pc = "issueUnlock"
        /\ handlers[h2].pc = "issueLock"
        /\ handlers[h2].token # handlers[h1].token
        /\ handlers[h1].token.s \in DOMAIN restTokens
        /\ handlers[h2].token.s \notin DOMAIN restTokens

(***************************************************************************)
(* Properties of the identity and of the responses of a request, checked   *)
(* under ServerSpec and its variants.                                      *)
(***************************************************************************)
\* entry i of the served connection's log is an AUTH the backing store
\* accepted
AcceptedAuth(i) ==
    /\ Len(served.conn.log[i]) = 3
    /\ served.conn.log[i][1] = "AUTH"
    /\ served.conn.replies[i].err = ""

\* the identity of the connection when entry j of its log was executed: that
\* of the last AUTH accepted before it
IdentityAt(j) ==
    LET auths == {i \in 1..(j - 1) : AcceptedAuth(i)}
        last == CHOOSE i \in auths : \A k \in auths : k <= i
    IN  IF auths = {} THEN NoAuth
        ELSE [Username |-> served.conn.log[last][2],
              Password |-> served.conn.log[last][3]]

\* entry e of the connection's log is a command the server issued itself
IssuedByServer(e) == e[1] = "AUTH" \/ e = <<"ACL", "GENPASS">>

\* C35: every command of the caller is executed on the connection under the
\* identity the request was authenticated as, also the items of a pipeline
\* that follow an ACL RESTTOKEN item.
C35_IdentityKept ==
    (Replied /\ served.step = "dispatch")
    => \A j \in 1..Len(served.conn.log) :
          ~IssuedByServer(served.conn.log[j]) => IdentityAt(j) = Identity

(***************************************************************************)
(* Properties of a server started without an API token, checked under      *)
(* OpenSpec.                                                               *)
(***************************************************************************)
\* C37: a request that carries no token at all, neither a _token query
\* parameter nor an Authorization header, is answered 401 and gets no
\* connection, also by a server whose APIToken is the empty string.
C37_NoTokenNoAccess ==
    (/\ Replied
     /\ served.r.authorization = ""
     /\ ~HasTokenPair(served.r.query))
    => /\ served.resp.status = StatusUnauthorized
       /\ ~served.acquired

(***************************************************************************)
(* Properties of the server in front of any backing store, checked under   *)
(* AnyStoreSpec.                                                           *)
(***************************************************************************)
\* C38: every request handled by ServeHTTP ends with exactly one response,
\* a status with at most one body, whatever the backing connection
\* replied, also when its reply to ACL GENPASS is not a string.
C38_OneResponse ==
    Replied
    => served.resp.status \in
         {StatusOK, StatusBadRequest, StatusUnauthorized, StatusMethodNotAllowed,
          StatusInternalServerError}

\* C39: a request authenticated through an entry of the token store, not
\* the admin token, that gets a connection has AUTH with the entry's
\* credential issued first on it, also when the entry holds the empty
\* username and the empty password.
C39_TokenIdentityAuth ==
    (/\ Replied
     /\ ServedToken # AdminToken
     /\ ServedToken \in DOMAIN served.before
     /\ served.acquired)
    => /\ Len(served.conn.log) >= 1
       /\ served.conn.log[1] =
            <<"AUTH", served.before[ServedToken].Username,
              served.before[ServedToken].Password>>

(***************************************************************************)
(* Properties of the client Request, checked under Spec.                   *)
(***************************************************************************)
\* the call got a reply batch: exec issued a request and returned no error
RoundTripOK == call.http # <<>> /\ call.xerr.k = "nil"

\* reply i of the batch is a Failure
Failed(i) == call.batch[i] # NilResult /\ call.batch[i].Error # ""

FailedPositions == {i \in 1..Len(call.batch) : Failed(i)}

LowestFailed == CHOOSE i \in FailedPositions : \A j \in FailedPositions : i <= j

\* C3: after a successful round trip, if any reply of the batch is a Failure,
\* Exec returns the *Error built from the Failure of lowest index, with that
\* (zero-based) index as PipelineIndex.
C3_ExecFirstFailure ==
    (call.op = "Exec" /\ RoundTripOK /\ FailedPositions # {})
    => call.err = newError(call.batch[LowestFailed].Error, LowestFailed - 1)

\* C4: when Exec returns the error of a Failure, every destination that is
\* not nil and whose reply is not a Failure holds the value of its reply,
\* before and after the failed positions alike, and the destinations at
\* failed positions and the nil destinations are untouched.
C4_ExecPartialUnmarshal ==
    (call.op = "Exec" /\ RoundTripOK /\ call.err.k = "Error")
    => /\ Len(call.dst) = Len(call.in.dst)
       /\ \A i \in 1..Len(call.in.dst) :
            /\ (call.in.dst[i] # "nil" /\ ~Failed(i))
                    => (call.dst[i] # Unset /\ call.dst[i] = call.batch[i].Result)
            /\ Failed(i) => call.dst[i] = Unset
            /\ call.in.dst[i] = "nil" => call.dst[i] = Unset

\* Exec returned the error of a Failure that lies between two positions
\* whose destinations were both written
C4_Witness ==
    /\ call.op = "Exec"
    /\ RoundTripOK
    /\ call.err.k = "Error"
    /\ \E i, k, j \in 1..Len(call.in.dst) :
        /\ i < k /\ k < j
        /\ Failed(k)
        /\ call.dst[i] # Unset
        /\ call.dst[j] # Unset
        /\ call.dst[k] = Unset

\* C5: the *Error ExecOne returns when its command failed has PipelineIndex 0
\* however many commands were queued before it.  (The error envelope of a
\* non-200 answer to a pipelined request is not the failure of a command.)
C5_ExecOneIndexZero ==
    (/\ call.op = "ExecOne"
     /\ call.err.k = "Error"
     /\ (Len(call.before) = 0 \/ RoundTripOK))
    => call.err.PipelineIndex = 0

\* ExecOne's command failed after two queued commands, one of which failed too
C5_Witness ==
    /\ call.op = "ExecOne"
    /\ Len(call.before) = 2
    /\ RoundTripOK
    /\ Len(call.batch) = 3
    /\ Failed(3)
    /\ Failed(1)
    /\ call.err.k = "Error"
    /\ call.err.Message = call.batch[3].Error

\* the last reply of the batch
LastReply == call.batch[Len(call.batch)]

\* C6: the outcome of ExecOne depends on the last reply only: it returns an
\* error built from that reply when it is a Failure, otherwise no error (the
\* destination accepting the value) whatever the earlier replies are, and
\* the destination then holds the value of the last reply.
C6_ExecOneLastOnly ==
    (call.op = "ExecOne" /\ RoundTripOK /\ Len(call.batch) >= 1)
    => /\ LastReply.Error # ""
            => /\ call.err.k = "Error"
               /\ call.err.Message = LastReply.Error
               /\ call.dst = <<Unset>>
       /\ (LastReply.Error = "" /\ call.in.dst = "nil")
            => (call.err.k = "nil" /\ call.dst = <<Unset>>)
       /\ (/\ LastReply.Error = ""
           /\ \/ call.in.dst = "*string" /\ LastReply.Result.t = "string"
              \/ call.in.dst = "*int" /\ LastReply.Result.t = "number")
            => (call.err.k = "nil" /\ call.dst = <<LastReply.Result>>)

\* ExecOne succeeded after a queued command that failed and one whose value
\* differs from the one ExecOne's destination received
C6_Witness ==
    /\ call.op = "ExecOne"
    /\ RoundTripOK
    /\ Len(call.batch) = 3
    /\ \E i \in 1..2 : Failed(i)
    /\ \E i \in 1..2 : ~Failed(i) /\ call.batch[i].Result # LastReply.Result
    /\ call.err.k = "nil"
    /\ call.dst = <<LastReply.Result>>

\* C7: ExecRaw never returns the error of a command: against a server that
\* accepts the token, for every batch size, it returns no error and a reply
\* batch with one entry per command, the entry of a command the backing
\* store rejects carrying a non-empty Error.
C7_ExecRawNeverPromotes ==
    (/\ call.op = "ExecRaw"
     /\ call.transport = "server"
     /\ tok = AdminToken
     /\ Len(call.before) >= 1)
    => /\ call.err.k = "nil"
       /\ Len(call.res) = Len(call.before)
       /\ \A i \in 1..Len(call.before) :
            call.before[i][1] = Str("NOTACMD") => call.res[i].Error # ""

\* the call starts the transmission of a non-empty queue
Transmits ==
    \/ call.op \in {"Exec", "ExecRaw"} /\ Len(call.before) > 0
    \/ call.op = "ExecOne" /\ call.in.cmd # ""

\* the queue as it is when the call runs exec
QueueAtCall ==
    IF call.op = "ExecOne"
    THEN Append(call.before,
                <<Str(call.in.cmd)>> \o
                    [i \in 1..Len(call.in.args) |-> writeArg(call.in.args[i], TRUE)])
    ELSE call.before

\* the commands the server decodes from HTTP request r
SentCommands(r) ==
    IF r.path = PipelinePath THEN UnmarshalPipeline(r.body).cmds
    ELSE <<UnmarshalCommand(r.body).args>>

\* C8: a call of Exec, ExecOne or ExecRaw that starts the transmission of a
\* non-empty queue issues exactly one HTTP request, which carries the whole
\* queue in Send order (a pipeline when it holds several commands), and the
\* queue is empty when the call returns, whatever the round trip did.
C8_WholeQueueSentAndCleared ==
    Transmits
    => /\ Len(call.http) = 1
       /\ SentCommands(call.http[1]) = QueueAtCall
       /\ (call.http[1].path = PipelinePath) <=> (Len(QueueAtCall) > 1)
       /\ call.req = <<>>
       /\ req = <<>>

\* Exec sent a queue of several commands over a transport that failed
C8_Witness ==
    /\ call.op = "Exec"
    /\ Len(call.before) >= 2
    /\ call.transport = "neterr"
    /\ call.err.k = "error"
    /\ Len(call.http) = 1
    /\ req = <<>>

\* C9: Exec and ExecRaw on an empty queue return the error "no command to
\* execute", issue no HTTP request and leave the queue empty.
C9_EmptyQueueRejected ==
    (call.op \in {"Exec", "ExecRaw"} /\ Len(call.before) = 0)
    => /\ call.err = PlainError("upstashdis: no command to execute")
       /\ call.http = <<>>
       /\ req = <<>>

\* ExecRaw was called on an empty queue and returned an error
C9_Witness ==
    /\ call.op = "ExecRaw"
    /\ Len(call.before) = 0
    /\ call.err.k = "error"
    /\ call.res = <<>>

\* C10: Send with an empty name returns the error "empty command" and leaves
\* the queue as it was; Send with a name appends exactly one command, which
\* starts with that name, at the end of the queue and returns no error;
\* neither issues an HTTP request.
C10_Send ==
    call.op = "Send"
    => /\ call.http = <<>>
       /\ call.in.cmd = ""
            => /\ call.err = PlainError("upstashdis: empty command")
               /\ req = call.before
       /\ call.in.cmd # ""
            => /\ call.err.k = "nil"
               /\ Len(req) = Len(call.before) + 1
               /\ SubSeq(req, 1, Len(call.before)) = call.before
               /\ req[Len(req)][1] = Str(call.in.cmd)
               /\ Len(req[Len(req)]) = 1 + Len(call.in.args)

\* Send queued a command behind two others
C10_Witness ==
    /\ call.op = "Send"
    /\ call.in.cmd # ""
    /\ Len(call.before) = 2
    /\ Len(req) = 3
    /\ call.err.k = "nil"

\* C11: a call that transmits a queue issues exactly one HTTP request: a
\* queue of one command goes to the base endpoint with that command's array
\* as body, a queue of two or more goes to the /pipeline sub-resource with
\* the array of the commands' arrays as body.
C11_Framing ==
    Transmits
    => /\ Len(call.http) = 1
       /\ call.http[1].method = "POST"
       /\ Len(QueueAtCall) = 1
            => /\ call.http[1].path = <<"", "">>
               /\ call.http[1].body = JSONBody(Arr(QueueAtCall[1]))
       /\ Len(QueueAtCall) >= 2
            => /\ call.http[1].path = <<"", "pipeline">>
               /\ call.http[1].body =
                    JSONBody(Arr([i \in 1..Len(QueueAtCall) |-> Arr(QueueAtCall[i])]))

\* ExecOne with one queued command sent both as one pipeline request
C11_Witness ==
    /\ call.op = "ExecOne"
    /\ Len(call.before) = 1
    /\ call.in.cmd # ""
    /\ Len(call.http) = 1
    /\ call.http[1].path = PipelinePath
    /\ Len(call.http[1].body.doc.a) = 2

\* the outcome d of conn.Do as the client decodes it from the server's
\* response
Decoded(d) ==
    UnmarshalResult(JSONBody(Encode(IF d.err # "" THEN errorResult(d.err)
                                    ELSE successResult(d.reply)))).v

\* the replies of the store to the commands of queue, run in order from store
RECURSIVE ExpectedReplies(_, _)
ExpectedReplies(store, queue) ==
    IF queue = <<>> THEN <<>>
    ELSE LET d == ConnDo(store, Null, NewConn, Sprint(Head(queue)[1]), Tail(Head(queue)))
         IN  <<Decoded(d)>> \o ExpectedReplies(d.store, Tail(queue))

\* C12: when exec returned no error, the reply batch has one entry per
\* command of the transmitted queue, entry i being the reply to command i,
\* and ExecRaw returns that batch.
C12_ReplyBatchAligned ==
    (Transmits /\ RoundTripOK)
    => /\ Len(call.batch) = Len(QueueAtCall)
       /\ call.batch = ExpectedReplies(Store(RemoteServer, call.world), QueueAtCall)
       /\ call.op = "ExecRaw" => call.res = call.batch

\* ExecRaw got the replies of three commands, the one in the middle a Failure
C12_Witness ==
    /\ call.op = "ExecRaw"
    /\ RoundTripOK
    /\ Len(call.before) = 3
    /\ Len(call.res) = 3
    /\ call.res[1].Error = ""
    /\ call.res[2].Error # ""
    /\ call.res[3].Error = ""
    /\ call.res[1].Result # call.res[3].Result

\* C13: Exec with more destinations than replies returns the error "too many
\* destination values", which is not an *Error, and writes to no destination.
C13_TooManyDst ==
    (call.op = "Exec" /\ RoundTripOK /\ Len(call.in.dst) > Len(call.batch))
    => /\ call.err = PlainError("upstashdis: too many destination values")
       /\ call.err.k # "Error"
       /\ Len(call.dst) = Len(call.in.dst)
       /\ \A i \in 1..Len(call.dst) : call.dst[i] = Unset

\* Exec got two successful replies and three destinations, the first two of
\* which could have received the replies
C13_Witness ==
    /\ call.op = "Exec"
    /\ RoundTripOK
    /\ Len(call.batch) = 2
    /\ Len(call.in.dst) = 3
    /\ ~Failed(1) /\ ~Failed(2)
    /\ call.in.dst[1] = "*string" /\ call.batch[1].Result.t = "string"
    /\ call.in.dst[2] = "*int" /\ call.batch[2].Result.t = "number"
    /\ call.err.k = "error"

\* destination i accepts the value of reply i
Accepts(i) ==
    \/ call.in.dst[i] = "nil"
    \/ call.in.dst[i] = "*string" /\ call.batch[i].Result.t = "string"
    \/ call.in.dst[i] = "*int" /\ call.batch[i].Result.t = "number"

\* C14: Exec with fewer destinations than replies never returns the error
\* "too many destination values"; when none of the first len(dst) replies is
\* a Failure (and the destinations accept their values) it returns no error
\* and each non-nil destination holds the value of the reply at its
\* position, whatever the trailing replies are.
C14_FewerDst ==
    (call.op = "Exec" /\ RoundTripOK /\ Len(call.in.dst) < Len(call.batch))
    => /\ call.err # PlainError("upstashdis: too many destination values")
       /\ Len(call.dst) = Len(call.in.dst)
       /\ (\A i \in 1..Len(call.in.dst) : ~Failed(i) /\ Accepts(i))
            => /\ call.err.k = "nil"
               /\ \A i \in 1..Len(call.in.dst) :
                    call.dst[i] = IF call.in.dst[i] = "nil" THEN Unset
                                  ELSE call.batch[i].Result

\* Exec got three replies and two destinations, and wrote the first two
\* replies to them
C14_Witness ==
    /\ call.op = "Exec"
    /\ RoundTripOK
    /\ Len(call.batch) = 3
    /\ Len(call.in.dst) = 2
    /\ call.err.k = "nil"
    /\ call.dst[1] = call.batch[1].Result
    /\ call.dst[2] = call.batch[2].Result
    /\ call.dst[1] # call.dst[2]

\* C15: the *Error returned when the server rejects the whole request (here
\* 401 Unauthorized for a token it does not know) has PipelineIndex -1, for
\* a single-command request and for a pipeline request alike.
C15_RequestLevelIndex ==
    (/\ call.op \in {"Exec", "ExecOne", "ExecRaw"}
     /\ call.http # <<>>
     /\ call.transport = "server"
     /\ tok # AdminToken)
    => /\ call.err.k = "Error"
       /\ call.err.Message = "Unauthorized"
       /\ call.err.PipelineIndex = -1

\* C16: when the only command of a batch is rejected by the backing store,
\* Exec and ExecOne return an *Error with the store's message, its first
\* word as Kind and PipelineIndex 0, and write to no destination.
C16_SingleFailure ==
    (/\ call.op \in {"Exec", "ExecOne"}
     /\ Transmits
     /\ Len(QueueAtCall) = 1
     /\ QueueAtCall[1][1] = Str("NOTACMD")
     /\ call.transport = "server"
     /\ tok = AdminToken)
    => /\ call.err.k = "Error"
       /\ call.err.Message = ErrNotAvailable
       /\ call.err.Kind = "ERR"
       /\ call.err.PipelineIndex = 0
       /\ \A i \in 1..Len(call.dst) : call.dst[i] = Unset

\* Exec with one destination on a queue of one command that the store rejected
C16_Witness ==
    /\ call.op = "Exec"
    /\ Len(call.before) = 1
    /\ call.before[1][1] = Str("NOTACMD")
    /\ call.transport = "server"
    /\ tok = AdminToken
    /\ Len(call.in.dst) = 1
    /\ call.in.dst[1] # "nil"
    /\ call.err.k = "Error"
    /\ call.dst = <<Unset>>

(***************************************************************************)
(* Properties of the client's encoder and of its errors, checked under     *)
(* Spec.                                                                   *)
(***************************************************************************)
\* the encoding of an argument that has no RedisArg method
PlainEncoding(arg) ==
    CASE arg.go \in {"string", "[]byte"} -> Str(arg.s)
      [] arg.go \in {"int", "int64"} -> Num(arg.n)
      [] arg.go = "bool" -> Str(IF arg.b THEN "1" ELSE "0")
      [] arg.go = "nil" -> Str("")
      [] OTHER -> Str(arg.text)

\* the encoding of any argument: a self-describing one is replaced by what
\* its RedisArg returns, and that value is printed as text when it is
\* self-describing too
Encoding(arg) ==
    IF arg.go # "Argument" THEN PlainEncoding(arg)
    ELSE IF arg.arg.go = "Argument" THEN Str(arg.arg.text)
    ELSE PlainEncoding(arg.arg)

\* C33: Send encodes a self-describing argument as the value its RedisArg
\* method returns, by the rules of plain arguments; when that value is
\* self-describing itself it is printed as text and not unwrapped again;
\* encoding never fails, whatever the argument.
C33_UnwrapOnce ==
    (call.op = "Send" /\ call.in.cmd # "")
    => /\ call.err.k = "nil"
       /\ req[Len(req)] =
            <<Str(call.in.cmd)>> \o
                [i \in 1..Len(call.in.args) |-> Encoding(call.in.args[i])]

\* Send was given an argument whose RedisArg returns another self-describing
\* value: the text of that value was queued
C33_Witness ==
    /\ call.op = "Send"
    /\ call.in.args = <<GoArgument(GoArgument(GoString("a"), "{a}"), "{{a}}")>>
    /\ req[Len(req)] = <<Str("ECHO"), Str("{a}")>>

\* the positions of the spaces of msg
Spaces(msg) == {i \in 1..Len(msg) : SubSeq(msg, i, i) = " "}

\* the first space-delimited token of msg: msg itself when it has no space
FirstToken(msg) ==
    IF Spaces(msg) = {} THEN msg
    ELSE SubSeq(msg, 1, (CHOOSE i \in Spaces(msg) : \A j \in Spaces(msg) : i <= j) - 1)

\* the error texts of the response the call received
ResponseErrors ==
    LET body == DoIn(call.world, call.transport, call.http[1]).body
        entries == IF body.k # "json" THEN <<>>
                   ELSE IF body.doc.t = "array" THEN body.doc.a
                   ELSE <<body.doc>>
    IN  {entries[i].o.error.s :
            i \in {j \in 1..Len(entries) :
                      /\ entries[j].t = "object"
                      /\ "error" \in DOMAIN entries[j].o
                      /\ entries[j].o.error.t = "string"}}

\* the call returned a Typed Error built from a response
TypedError == call.op \in {"Exec", "ExecOne", "ExecRaw"} /\ call.err.k = "Error"

\* C34 as stated: the Kind of a Typed Error is the first space-delimited
\* token of its message, and the message is an error text of the response.
C34_KindFirstToken ==
    TypedError
    => /\ call.err.Kind = FirstToken(call.err.Message)
       /\ call.err.Message \in ResponseErrors

\* C34: the Kind of a Typed Error is what precedes the first space of its
\* message, and is empty when the message has no space at all (a message of
\* one word has no Kind); the message is an error text of the response,
\* unchanged.
C34_KindBeforeFirstSpace ==
    TypedError
    => /\ call.err.Message \in ResponseErrors
       /\ Spaces(call.err.Kind) = {}
       /\ Spaces(call.err.Message) = {} => call.err.Kind = ""
       /\ Spaces(call.err.Message) # {}
            => HasPrefix(call.err.Message, call.err.Kind \o " ")

\* the Typed Error of a command the backing store does not know
C34_Witness ==
    /\ TypedError
    /\ call.err.Message = ErrNotAvailable
    /\ call.err.Kind = "ERR"
    /\ call.err.Message \in ResponseErrors

(***************************************************************************)
(* Properties of sequences of calls on one Request, checked under Spec.    *)
(***************************************************************************)
\* the command ExecOne queues itself before it transmits
QueuedByCall(c) ==
    IF c.op = "ExecOne"
    THEN <<(<<Str(c.in.cmd)>> \o [i \in 1..Len(c.in.args) |-> Encoding(c.in.args[i])])>>
    ELSE <<>>

\* one call on the Request: an execution call that issues an HTTP request
\* transmits exactly the queue as it stands (with ExecOne's own command at
\* the end) and leaves the queue empty, whatever the round trip did; an
\* execution call that issues none leaves the queue as it was; Send
\* transmits nothing and at most appends one command.
OneTransmission ==
    /\ (call'.op \in {"Exec", "ExecOne", "ExecRaw"} /\ call'.http # <<>>)
        => /\ Len(call'.http) = 1
           /\ SentCommands(call'.http[1]) = req \o QueuedByCall(call')
           /\ req' = <<>>
    /\ (call'.op \in {"Exec", "ExecOne", "ExecRaw"} /\ call'.http = <<>>)
        => req' = req
    /\ call'.op = "Send"
        => /\ call'.http = <<>>
           /\ \/ req' = req
              \/ Len(req') = Len(req) + 1 /\ SubSeq(req', 1, Len(req)) = req
    /\ call'.op = "none" => req' = req

\* C36: across any sequence of Send, Exec, ExecOne and ExecRaw calls on one
\* Request each queued command is transmitted at most once: every batch is
\* the queue built since the last execution call, and the queue is empty
\* after a transmission, also after one that failed.
C36_TransmittedOnce == [][OneTransmission]_vars

\* ExecOne transmitted its command behind two queued ones over a transport
\* that failed, and the queue is empty
C36_Witness ==
    /\ call.op = "ExecOne"
    /\ call.transport = "neterr"
    /\ Len(call.before) = 2
    /\ Len(call.http) = 1
    /\ Len(SentCommands(call.http[1])) = 3
    /\ req = <<>>

(***************************************************************************)
(* Properties of the client in front of any server, checked under          *)
(* AnyServerSpec.                                                          *)
(***************************************************************************)
\* C40: Exec, ExecOne and ExecRaw return a value or an error and never end
\* in a runtime fault, whatever the body of a 200 response is: an empty
\* array, null, an array with null entries, an array shorter than the
\* batch.
C40_NoRuntimeFault ==
    call.op \in {"Exec", "ExecOne", "ExecRaw"} => call.err.k # "panic"

====

